---- MODULE Spec2Model ----
(***************************************************************************)
(* Tomato food-delivery support chatbot: the intent router and response    *)
(* composition pipeline of chatbot/main.py (FastAPI handler) and           *)
(* chatbot/api/index.py (Flask handler).                                   *)
(*                                                                         *)
(* Text is modelled character by character: a message, a keyword and a     *)
(* reply are TLA+ strings, "k in t" is substring containment, and every    *)
(* regular expression of the source is translated by hand into an operator *)
(* over character positions.  Non-ASCII punctuation of the source's        *)
(* literals (curly quotes, ellipsis, multiplication sign, dashes, bullets) *)
(* is written with its ASCII look-alike.                                    *)
(***************************************************************************)
EXTENDS Integers, Sequences, FiniteSets, TLC

(***************************************************************************)
(* Characters and strings (Python str methods used by the source)          *)
(***************************************************************************)
UpperChars == <<"A","B","C","D","E","F","G","H","I","J","K","L","M",
               "N","O","P","Q","R","S","T","U","V","W","X","Y","Z">>

LowerChars == <<"a","b","c","d","e","f","g","h","i","j","k","l","m",
               "n","o","p","q","r","s","t","u","v","w","x","y","z">>

Digits == {"0","1","2","3","4","5","6","7","8","9"}

UpperSet == {UpperChars[i] : i \in 1..26}

LowerSet == {LowerChars[i] : i \in 1..26}

Whitespace == {" ", "\n", "\t"}

\* s[i] of Python (1-based here); "" outside the string
CharAt(s, i) == IF i >= 1 /\ i <= Len(s) THEN SubSeq(s, i, i) ELSE ""

IsAlpha(c) == c \in UpperSet \/ c \in LowerSet

IsDigit(c) == c \in Digits

\* \w of the re module, ASCII part
IsWordChar(c) == IsAlpha(c) \/ IsDigit(c) \/ c = "_"

IsSpace(c) == c \in Whitespace

LowerChar(c) ==
  IF c \in UpperSet
    THEN LowerChars[CHOOSE i \in 1..26 : UpperChars[i] = c]
    ELSE c

UpperChar(c) ==
  IF c \in LowerSet
    THEN UpperChars[CHOOSE i \in 1..26 : LowerChars[i] = c]
    ELSE c

\* str.lower()
RECURSIVE Lower(_)
Lower(s) ==
  IF Len(s) = 0 THEN ""
  ELSE IF Len(s) = 1 THEN LowerChar(s)
  ELSE LET h == Len(s) \div 2
       IN Lower(SubSeq(s, 1, h)) \o Lower(SubSeq(s, h + 1, Len(s)))

\* str.upper()
RECURSIVE Upper(_)
Upper(s) ==
  IF Len(s) = 0 THEN ""
  ELSE IF Len(s) = 1 THEN UpperChar(s)
  ELSE LET h == Len(s) \div 2
       IN Upper(SubSeq(s, 1, h)) \o Upper(SubSeq(s, h + 1, Len(s)))

\* s[i:i+len(k)] == k, 1-based
MatchAt(s, k, i) ==
  /\ i >= 1
  /\ i + Len(k) - 1 <= Len(s)
  /\ SubSeq(s, i, i + Len(k) - 1) = k

\* k in t
Contains(t, k) == \E i \in 1..(Len(t) - Len(k) + 1) : MatchAt(t, k, i)

\* t.startswith(k)
StartsWith(t, k) == MatchAt(t, k, 1)

\* str.strip(chars): the set of characters removed at both ends
StripChars(s, chars) ==
  LET n == Len(s)
      lead == {i \in 1..n : \A j \in 1..i : CharAt(s, j) \in chars}
      a == Cardinality(lead) + 1
      trail == {i \in 1..n : \A j \in i..n : CharAt(s, j) \in chars}
      b == n - Cardinality(trail)
  IN IF a > b THEN "" ELSE SubSeq(s, a, b)

\* str.strip()
Strip(s) == StripChars(s, Whitespace)

\* str.rstrip(chars)
RStripChars(s, chars) ==
  LET n == Len(s)
      trail == {i \in 1..n : \A j \in i..n : CharAt(s, j) \in chars}
  IN SubSeq(s, 1, n - Cardinality(trail))

\* str.replace(old, new) for a one-character old
RECURSIVE ReplaceChar(_, _, _)
ReplaceChar(s, old, new) ==
  IF Len(s) = 0 THEN ""
  ELSE IF Len(s) = 1 THEN (IF s = old THEN new ELSE s)
  ELSE LET h == Len(s) \div 2
       IN ReplaceChar(SubSeq(s, 1, h), old, new) \o ReplaceChar(SubSeq(s, h + 1, Len(s)), old, new)

\* ", ".join(seq)
RECURSIVE Join(_, _)
Join(seq, sep) ==
  IF Len(seq) = 0 THEN ""
  ELSE IF Len(seq) = 1 THEN seq[1]
  ELSE seq[1] \o sep \o Join(Tail(seq), sep)

\* the elements of seq satisfying a membership test, in order
RECURSIVE SelectIn(_, _)
SelectIn(seq, S) ==
  IF Len(seq) = 0 THEN <<>>
  ELSE (IF seq[1] \in S THEN <<seq[1]>> ELSE <<>>) \o SelectIn(Tail(seq), S)

\* \b at the gap before position i (between s[i-1] and s[i])
Boundary(s, i) == IsWordChar(CharAt(s, i - 1)) # IsWordChar(CharAt(s, i))

\* \bw\b matched at position i, for a phrase w that starts and ends with a word character
WordAt(s, w, i) ==
  /\ MatchAt(s, w, i)
  /\ Boundary(s, i)
  /\ Boundary(s, i + Len(w))

\* re.search(r"\b(w1|w2|...)\b", s)
HasWord(s, words) == \E w \in words : \E i \in 1..Len(s) : WordAt(s, w, i)

\* re.search(r"\b(a1|a2|..)\b.*\b(b1|b2|..)\b", s): "." does not match a newline
HasWordThenWord(s, first, second) ==
  \E a \in first : \E b \in second :
    \E i \in 1..Len(s) : \E j \in 1..Len(s) :
      /\ WordAt(s, a, i)
      /\ j >= i + Len(a)
      /\ WordAt(s, b, j)
      /\ \A k \in (i + Len(a))..(j - 1) : CharAt(s, k) # "\n"

\* re.search(r"\ba\s*b\b", s)
HasWordSpacesWord(s, a, b) ==
  \E i \in 1..Len(s) : \E j \in 1..Len(s) :
    /\ MatchAt(s, a, i)
    /\ Boundary(s, i)
    /\ j >= i + Len(a)
    /\ \A k \in (i + Len(a))..(j - 1) : IsSpace(CharAt(s, k))
    /\ MatchAt(s, b, j)
    /\ Boundary(s, j + Len(b))

(***************************************************************************)
(* Stripe error knowledge (STRIPE_ERRORS), in the dict's insertion order   *)
(***************************************************************************)
StripeTypes ==
  << <<"card_error", "A problem with the card (number, CVC, expiry, or bank declined the charge). Show a friendly message and ask for another payment method or to contact the bank.">>,
     <<"invalid_request_error", "Your request to Stripe is malformed or missing params. Double-check IDs, amounts, currency, and required fields.">>,
     <<"api_error", "Stripe had an internal error. Safe to retry after a brief delay.">>,
     <<"rate_limit_error", "Too many requests too quickly. Back off and retry with exponential delay.">>,
     <<"authentication_error", "Invalid or missing API key / account isn't authorized. Verify the key (test vs live) and the account permissions.">>,
     <<"permission_error", "The API key doesn't have permission for that resource. Check Connect scopes / restricted keys.">>,
     <<"idempotency_error", "Reused idempotency key with different params. Generate a fresh key for a new request.">>,
     <<"api_connection_error", "Network problem reaching Stripe. Retry with backoff and verify TLS/network.">>,
     <<"oauth_error", "OAuth / Connect authorization issue. Reconnect the account and verify the client settings.">> >>

StripeCodes ==
  << <<"resource_missing", "The object ID you referenced doesn't exist or isn't accessible. Verify the ID and environment (test vs live).">>,
     <<"parameter_missing", "A required parameter is missing. Add the missing field and retry.">>,
     <<"parameter_invalid_integer", "Invalid numeric field. Provide a valid integer for amount/quantity.">>,
     <<"amount_too_small", "Amount is below Stripe's minimum for that currency. Increase the amount.">>,
     <<"amount_too_large", "Amount exceeds allowed maximum. Lower the amount.">>,
     <<"currency_mismatch", "You're mixing currencies for related objects. Keep currencies consistent.">>,
     <<"country_unsupported", "The country isn't supported for this method. Use a supported country or method.">>,
     <<"testmode_charges_only", "Using a test key in live mode (or vice versa). Switch to the correct key.">>,
     <<"charge_already_captured", "The charge is already captured. Don't capture again.">>,
     <<"charge_already_refunded", "The charge is already refunded. Avoid duplicate refunds.">>,
     <<"payment_intent_unexpected_state", "PaymentIntent is in a state that doesn't allow the action. Fetch its latest status and follow the lifecycle.">>,
     <<"setup_intent_unexpected_state", "SetupIntent can't perform the action in its current status. Refresh and follow the required step.">>,
     <<"authentication_required", "Strong customer authentication (3DS) is required. Present 3D Secure to complete the payment.">>,
     <<"invalid_number", "The card number is incorrect. Ask the customer to re-enter the card.">>,
     <<"invalid_expiry_month", "Invalid expiry month.">>,
     <<"invalid_expiry_year", "Invalid expiry year.">>,
     <<"invalid_cvc", "CVC format is invalid.">>,
     <<"incorrect_cvc", "CVC doesn't match. Customer should re-enter CVC or use another card.">>,
     <<"expired_card", "The card is expired. Use a different card.">>,
     <<"card_declined", "The bank declined the charge. See decline_code for details or ask the customer to try another card.">>,
     <<"processing_error", "An error occurred while processing the card. It's usually transient-retry once, then try another method.">> >>

StripeDeclineCodes ==
  << <<"insufficient_funds", "The card has insufficient funds. Ask the customer to use another card or contact their bank.">>,
     <<"lost_card", "The card was reported lost. The bank blocked it. Use a different card.">>,
     <<"stolen_card", "The card was reported stolen. The bank blocked it. Use a different card.">>,
     <<"do_not_honor", "The bank declined without a reason. Ask the customer to contact their bank or use another card.">>,
     <<"generic_decline", "A generic decline from the bank. Try again later or a different method.">>,
     <<"pickup_card", "The bank requests to retain the card (severe flag). Use another card.">>,
     <<"reenter_transaction", "Try entering the transaction again. If it repeats, use another card.">>,
     <<"try_again_later", "Temporary issue at the bank. Try again later or another method.">>,
     <<"fraudulent", "The bank suspects fraud. Use another card; advise the customer to contact their bank.">>,
     <<"authentication_required", "3DS authentication required. Present 3D Secure to complete the payment.">>,
     <<"incorrect_zip", "ZIP/postal code didn't match. Ask the customer to confirm their billing ZIP.">>,
     <<"incorrect_address", "Address check failed. Confirm the billing address.">>,
     <<"incorrect_cvc", "CVC didn't match. Re-enter CVC.">>,
     <<"processor_declined", "The processor declined the charge. Use another card or contact bank.">> >>

StripeIntents ==
  << <<"requires_payment_method", "Payment failed or was canceled. Collect a new payment method and confirm again.">>,
     <<"requires_confirmation", "You created/updated the intent. Now call confirm to continue.">>,
     <<"requires_action", "Customer action (e.g., 3DS) required. Use next_action to complete authentication.">>,
     <<"processing", "Stripe is processing the payment. Poll or wait for webhook to finalize.">>,
     <<"succeeded", "Payment succeeded. You can fulfill the order.">>,
     <<"canceled", "The intent was canceled. Create a new intent to retry.">> >>

PAYMENT_STATUS_KEYWORDS ==
  << "why my previous transaction got failed",
     "why did my previous transaction fail",
     "why did my payment fail",
     "payment failed",
     "transaction failed",
     "last payment",
     "previous payment",
     "previous transaction",
     "payment status",
     "was my payment successful",
     "did my payment go through",
     "stripe failure",
     "declined payment",
     "3ds failed" >>

PREV_ORDERS_KEYWORDS ==
  << "previous orders",
     "past orders",
     "order history",
     "my orders",
     "recent orders",
     "last order",
     "my last order",
     "history of orders",
     "show my orders",
     "show my previous orders",
     "show my recent orders" >>

POPULAR_KEYWORDS ==
  << "popular",
     "best",
     "bestseller",
     "most ordered",
     "most-ordered",
     "top",
     "famous",
     "hot" >>
Keys(table) == [i \in 1..Len(table) |-> table[i][1]]

KeySet(table) == {table[i][1] : i \in 1..Len(table)}

Lookup(table, k) == table[CHOOSE i \in 1..Len(table) : table[i][1] = k][2]

SeqToSet(seq) == {seq[i] : i \in 1..Len(seq)}

\* _n(s): strip, lower, "-" and " " become "_"
NormKey(s) == ReplaceChar(ReplaceChar(Lower(Strip(s)), "-", "_"), " ", "_")

StripeQueryKeywords ==
  <<"error:", "code:", "type:", "payment_method", "3ds", "3d secure", "authentication_required">>

is_stripe_query(text) ==
  LET t == Lower(text) IN
  \/ Contains(t, "stripe") \/ Contains(t, "payment_intent") \/ Contains(t, "setup_intent")
  \/ Contains(t, "decline_code") \/ Contains(t, "card_declined") \/ Contains(t, "declined")
  \/ \E kw \in SeqToSet(StripeQueryKeywords) : Contains(t, kw)
  \/ \E key \in KeySet(StripeTypes) \cup KeySet(StripeCodes) \cup KeySet(StripeDeclineCodes) :
       Contains(t, ReplaceChar(key, "_", " ")) \/ Contains(t, key)

is_payment_status_query(text) ==
  LET t == Lower(text) IN \E k \in SeqToSet(PAYMENT_STATUS_KEYWORDS) : Contains(t, k)

is_previous_orders_query(text) ==
  LET t == Lower(text) IN \E k \in SeqToSet(PREV_ORDERS_KEYWORDS) : Contains(t, k)

is_popularity_query(text) ==
  LET t == Lower(text) IN \E k \in SeqToSet(POPULAR_KEYWORDS) : Contains(t, k)

(***************************************************************************)
(* The menu store.  The foods collection holds the seed documents of       *)
(* STATIC_FOODS in insertion order; the model keeps eight of the           *)
(* thirty-two (four salads, two desserts, one veg, one noodles).  The      *)
(* accented letter of "sauteed" is written without its accent.             *)
(***************************************************************************)
STATIC_FOODS ==
  << [id |-> "f01", name |-> "Greek salad", category |-> "salad", price |-> 12,
      description |-> "Classic Mediterranean salad; not spicy. Ingredients: cucumber, ripe tomatoes, red onion, Kalamata olives, feta, oregano, olive oil & lemon."],
     [id |-> "f02", name |-> "Veg salad", category |-> "salad", price |-> 18,
      description |-> "Crisp garden salad; not spicy. Ingredients: mixed greens, cucumber, tomato, carrots, sweet corn, bell peppers, light lemon-herb vinaigrette."],
     [id |-> "f03", name |-> "Clover Salad", category |-> "salad", price |-> 16,
      description |-> "Wholesome green bowl; not spicy. Ingredients: lettuce, chickpeas, cucumber, cherry tomatoes, fresh herbs, avocado, lemon-tahini dressing."],
     [id |-> "f04", name |-> "Chicken Salad", category |-> "salad", price |-> 24,
      description |-> "Protein-packed salad; not spicy. Ingredients: grilled chicken, lettuce, celery, cherry tomatoes, cucumber, yogurt-mayo dressing, parsley."],
     [id |-> "f11", name |-> "Jar Ice Cream", category |-> "desserts", price |-> 10,
      description |-> "Layered jar dessert; sweet. Ingredients: ice cream, crushed cookies/cake, sauce (chocolate/caramel), whipped cream."],
     [id |-> "f12", name |-> "Vanilla Ice Cream", category |-> "desserts", price |-> 12,
      description |-> "Classic vanilla; sweet. Ingredients: dairy base, Madagascar/Bourbon vanilla."],
     [id |-> "f24", name |-> "Rice Zucchini", category |-> "veg", price |-> 12,
      description |-> "Light herby rice; not spicy. Ingredients: rice, sauteed zucchini, garlic, olive oil, parsley, lemon zest."],
     [id |-> "f30", name |-> "Veg Noodles", category |-> "noodles", price |-> 12,
      description |-> "Stir-fried chow mein; mild to medium. Ingredients: wheat noodles, cabbage, carrot, bell pepper, spring onion, soy-garlic sauce."] >>

POPULARITY_START == 50

MenuNames == [i \in 1..Len(STATIC_FOODS) |-> STATIC_FOODS[i].name]

MenuNameSet == SeqToSet(MenuNames)

FoodByName(n) == STATIC_FOODS[CHOOSE i \in 1..Len(STATIC_FOODS) : STATIC_FOODS[i].name = n]

(***************************************************************************)
(* difflib.SequenceMatcher(None, a, b).ratio() as the pair <<M, T>> with   *)
(* ratio = 2M/T: M the total size of the matching blocks, T = len(a) +     *)
(* len(b).  No junk: b is always shorter than 200 characters.              *)
(***************************************************************************)
\* _norm(s)
Norm(s) == Lower(Strip(s))

RECURSIVE CommonPrefixLen(_, _, _, _)
CommonPrefixLen(a, b, i, j) ==
  IF i <= Len(a) /\ j <= Len(b) /\ CharAt(a, i) = CharAt(b, j)
    THEN 1 + CommonPrefixLen(a, b, i + 1, j + 1)
    ELSE 0

\* find_longest_match: the longest block, earliest in a, then earliest in b
FindLongestMatch(a, b) ==
  LET blocks == {<<i, j, CommonPrefixLen(a, b, i, j)>> : i \in 1..Len(a), j \in 1..Len(b)}
      best == CHOOSE x \in blocks :
                \A y \in blocks :
                  \/ x[3] > y[3]
                  \/ x[3] = y[3] /\ x[1] < y[1]
                  \/ x[3] = y[3] /\ x[1] = y[1] /\ x[2] <= y[2]
  IN [i |-> best[1], j |-> best[2], k |-> best[3]]

\* sum of the sizes of get_matching_blocks()
RECURSIVE MatchedChars(_, _)
MatchedChars(a, b) ==
  IF Len(a) = 0 \/ Len(b) = 0 THEN 0
  ELSE LET m == FindLongestMatch(a, b) IN
       IF m.k = 0 THEN 0
       ELSE m.k
            + MatchedChars(SubSeq(a, 1, m.i - 1), SubSeq(b, 1, m.j - 1))
            + MatchedChars(SubSeq(a, m.i + m.k, Len(a)), SubSeq(b, m.j + m.k, Len(b)))

\* _similar(a, b) as <<M, T>>
Similar(a, b) ==
  LET na == Norm(a)
      nb == Norm(b)
  IN <<MatchedChars(na, nb), Len(na) + Len(nb)>>

\* ratio comparisons in exact arithmetic: 2M/T against a percentage and against another ratio
RatioAtLeast(r, pct) == IF r[2] = 0 THEN TRUE ELSE 200 * r[1] >= pct * r[2]

RatioLess(r, s) ==
  IF r[2] = 0 THEN FALSE
  ELSE IF s[2] = 0 THEN 2 * r[1] < r[2]
  ELSE r[1] * s[2] < s[1] * r[2]

RatioMax(r, s) == IF RatioLess(r, s) THEN s ELSE r

SIMILARITY_FLOOR == 55

DISAMBIGUATE_BELOW == 88

DESC_PREFIX == 60

\* list.sort(key=score, reverse=True): stable, best first
RECURSIVE SortByScore(_)
SortByScore(ranked) ==
  IF Len(ranked) = 0 THEN <<>>
  ELSE LET n == Len(ranked)
           top == CHOOSE i \in 1..n :
                    /\ \A j \in 1..n : ~RatioLess(ranked[i].score, ranked[j].score)
                    /\ \A j \in 1..(i - 1) : RatioLess(ranked[j].score, ranked[i].score)
           rest == [k \in 1..(n - 1) |-> IF k < top THEN ranked[k] ELSE ranked[k + 1]]
       IN <<ranked[top]>> \o SortByScore(rest)

Take(seq, n) == SubSeq(seq, 1, IF Len(seq) < n THEN Len(seq) ELSE n)

RECURSIVE SelectDocs(_, _)
SelectDocs(docs, keep) ==
  IF Len(docs) = 0 THEN <<>>
  ELSE (IF Head(docs).name \in keep THEN <<Head(docs)>> ELSE <<>>) \o SelectDocs(Tail(docs), keep)

\* the documents whose lowered name equals the lowered query
ExactDocs(lq) == SelectDocs(STATIC_FOODS, {n \in MenuNameSet : Lower(n) = lq})

\* the documents whose name contains the query, limit * 3 of them at most
ContainsDocs(lq, limit) ==
  Take(SelectDocs(STATIC_FOODS, {n \in MenuNameSet : Contains(Lower(n), lq)}), limit * 3)

\* pool = contains or list(foods_col.find({}, ...))
FuzzyPool(contains) == IF Len(contains) > 0 THEN contains ELSE STATIC_FOODS

\* score(d) = max(_similar(query, name), _similar(query, description[:60]))
Score(query, doc) ==
  RatioMax(Similar(query, doc.name), Similar(query, Take(doc.description, DESC_PREFIX)))

Rank(query, pool) == [i \in 1..Len(pool) |-> [doc |-> pool[i], score |-> Score(query, pool[i])]]

\* [d for d in ranked if score(d) >= 0.55]
KeepScored(sorted) ==
  LET hits == SelectSeq(sorted, LAMBDA r : RatioAtLeast(r.score, SIMILARITY_FLOOR))
  IN [i \in 1..Len(hits) |-> hits[i].doc]

\* the exact match when there is one, the fuzzy result otherwise
ExactOrFuzzy(exact, fuzzy) == IF Len(exact) > 0 THEN Take(exact, 1) ELSE fuzzy

\* find_item_candidates_by_name(query, limit) against a reachable store
FindCandidatesUp(query, limit) ==
  IF Norm(query) = "" THEN <<>>
  ELSE ExactOrFuzzy(ExactDocs(Lower(query)),
                    KeepScored(Take(SortByScore(Rank(query, FuzzyPool(ContainsDocs(Lower(query),
                                                                                  limit)))),
                                    limit)))

(***************************************************************************)
(* Ordering intent extraction: patterns, item parsing, menu mapping        *)
(***************************************************************************)
\* SHOW_CART_PATTERNS, tried in order with re.search on the lowered text
MatchesShowCart(low) ==
  \/ HasWordThenWord(low, {"show", "view", "see"}, {"cart", "basket", "bag"})
  \/ \E p \in {"what's in my cart", "whats in my cart", "what's in cart", "whats in cart"} :
       \E i \in 1..Len(low) : MatchAt(low, p, i) /\ Boundary(low, i) /\ Boundary(low, i + Len(p))
  \/ HasWord(low, {"showcart"})
  \/ HasWord(low, {"viewcart"})
  \/ HasWordSpacesWord(low, "my", "cart")
  \/ HasWord(low, {"cart"})
  \/ HasWord(low, {"basket"})
  \/ HasWord(low, {"bag"})

\* CHECKOUT_PATTERNS
MatchesCheckout(low) ==
  HasWord(low, {"checkout", "check out", "pay", "proceed to payment", "place order", "place the order"})

\* CONFIRM_PATTERNS
MatchesConfirm(low) == HasWordThenWord(low, {"confirm", "finalize"}, {"payment", "order"})

\* ADD_PATTERNS
MatchesAdd(low) == HasWord(low, {"add", "order", "get", "ill have", "i'll have", "i want"})

\* REMOVE_PATTERNS
MatchesRemove(low) ==
  \/ HasWord(low, {"remove", "delete", "subtract"})
  \/ HasWordSpacesWord(low, "take", "out")

\* re.search(r"pi_[A-Za-z0-9_]+", t): the leftmost, longest match, "" when none
PaymentIntentId(t) ==
  LET starts == {i \in 1..Len(t) : MatchAt(t, "pi_", i) /\ IsWordChar(CharAt(t, i + 3))}
  IN IF starts = {} THEN ""
     ELSE LET i == CHOOSE a \in starts : \A b \in starts : a <= b
              e == CHOOSE a \in (i + 3)..Len(t) :
                     /\ \A k \in (i + 3)..a : IsWordChar(CharAt(t, k))
                     /\ ~IsWordChar(CharAt(t, a + 1))
          IN SubSeq(t, i, e)

\* extract_payment_method
extract_payment_method(low) == IF Contains(low, "cash") THEN "cash" ELSE "card"

\* re.split(r"(?:,|\n| and | & )", text, flags=re.IGNORECASE)
SplitSeparators == <<",", "\n", " and ", " & ">>

SeparatorAt(text, i) ==
  LET hits == {k \in 1..Len(SplitSeparators) :
                 i + Len(SplitSeparators[k]) - 1 <= Len(text)
                 /\ Lower(SubSeq(text, i, i + Len(SplitSeparators[k]) - 1)) = SplitSeparators[k]}
  IN IF hits = {} THEN 0
     ELSE Len(SplitSeparators[CHOOSE k \in hits : \A h \in hits : k <= h])

\* the parts from position start on: cut at the leftmost separator, then go on after it
RECURSIVE SplitFrom(_, _)
SplitFrom(text, start) ==
  LET seps == {p \in start..Len(text) : SeparatorAt(text, p) > 0} IN
  IF seps = {} THEN <<SubSeq(text, start, Len(text))>>
  ELSE LET p == CHOOSE a \in seps : \A b \in seps : a <= b
       IN <<SubSeq(text, start, p - 1)>> \o SplitFrom(text, p + SeparatorAt(text, p))

SplitItems(text) == SplitFrom(text, 1)

\* the lookahead (?=\s*(?:,|\n|and\b|&\b|$)) at position pos
QtyLookahead(p, pos) ==
  \E q \in pos..(Len(p) + 1) :
    /\ \A k \in pos..(q - 1) : IsSpace(CharAt(p, k))
    /\ \/ q = Len(p) + 1
       \/ q = Len(p) /\ CharAt(p, q) = "\n"
       \/ CharAt(p, q) = ","
       \/ CharAt(p, q) = "\n"
       \/ Lower(SubSeq(p, q, IF q + 2 <= Len(p) THEN q + 2 ELSE Len(p))) = "and"
            /\ ~IsWordChar(CharAt(p, q + 3))
       \/ CharAt(p, q) = "&" /\ IsWordChar(CharAt(p, q + 1))

\* first position at or after pos that is not whitespace
SkipSpaces(p, pos) ==
  CHOOSE q \in pos..(Len(p) + 1) :
    /\ \A k \in pos..(q - 1) : IsSpace(CharAt(p, k))
    /\ ~IsSpace(CharAt(p, q))

\* number of digits from pos on
DigitRun(p, pos) ==
  Cardinality({q \in pos..Len(p) : \A k \in pos..q : IsDigit(CharAt(p, k))})

DigitChars == <<"0","1","2","3","4","5","6","7","8","9">>

DigitVal(c) == (CHOOSE n \in 1..10 : DigitChars[n] = c) - 1

\* int(s) for a string of digits
StrToInt(s) ==
  LET F[i \in 0..Len(s)] == IF i = 0 THEN 0 ELSE 10 * F[i-1] + DigitVal(CharAt(s, i))
  IN F[Len(s)]

MAX_QTY_DIGITS == 3

\* the optional group (?:\s*[xX\*]\s*(?P<qty>\d{1,3}))? tried after a name ending at e:
\* the matched digits, "" when the group (followed by the lookahead) does not match
QtyGroupAfter(p, e) ==
  LET a == SkipSpaces(p, e + 1)
      b == SkipSpaces(p, a + 1)
      n == DigitRun(p, b)
  IN IF CharAt(p, a) \in {"x", "X", "*"} /\ n >= 1 /\ n <= MAX_QTY_DIGITS /\ QtyLookahead(p, b + n)
       THEN SubSeq(p, b, b + n - 1)
       ELSE ""

IsNameChar(c) == IsAlpha(c) \/ IsSpace(c) \/ c = "-"

\* ITEM_QTY_PATTERN matched from start i: the lazy name's possible ends
NameEnds(p, i) ==
  {e \in (i + 1)..Len(p) :
     /\ IsAlpha(CharAt(p, i))
     /\ \A k \in (i + 1)..e : IsNameChar(CharAt(p, k))
     /\ (QtyGroupAfter(p, e) # "" \/ QtyLookahead(p, e + 1))}

\* the least element of a non-empty set of positions
Least(S) == CHOOSE a \in S : \A b \in S : a <= b

\* the match starting at i: the shortest name for which the rest of the pattern matches
ItemQtyMatch(p, i, e) == [found |-> TRUE, name |-> SubSeq(p, i, e), qty |-> QtyGroupAfter(p, e)]

ItemQtyFrom(p, i) == ItemQtyMatch(p, i, Least(NameEnds(p, i)))

FirstItemQty(p, starts) ==
  IF starts = {} THEN [found |-> FALSE, name |-> "", qty |-> ""]
  ELSE ItemQtyFrom(p, Least(starts))

\* ITEM_QTY_PATTERN.search(p): [found, name, qty] with qty "" when the group is absent
ItemQtySearch(p) == FirstItemQty(p, {i \in 1..Len(p) : NameEnds(p, i) # {}})

Max(a, b) == IF a >= b THEN a ELSE b

\* the floor applied to a parsed quantity: max(1, qty)
QtyFloor(qty) == Max(1, qty)

\* the item of a match m: name stripped of " -", qty defaulting to 1 and floored
ParsedItem(m) ==
  LET name == StripChars(m.name, {" ", "-"})
  IN IF ~m.found \/ name = "" THEN <<>>
     ELSE <<[name |-> name, qty |-> QtyFloor(IF m.qty = "" THEN 1 ELSE StrToInt(m.qty))]>>

ParseStripped(p) == IF p = "" THEN <<>> ELSE ParsedItem(ItemQtySearch(p))

\* one part of the split text: the parsed item, or <<>> when the part yields none
ParsePart(part) == ParseStripped(Strip(part))

RECURSIVE ParseParts(_)
ParseParts(parts) ==
  IF Len(parts) = 0 THEN <<>> ELSE ParsePart(Head(parts)) \o ParseParts(Tail(parts))

parse_items_with_qty(text) == IF text = "" THEN <<>> ELSE ParseParts(SplitItems(text))

\* find_item_candidates_by_name: [] when db is None or the query raises
find_item_candidates_by_name(query, limit, dbUp) ==
  IF dbUp THEN FindCandidatesUp(query, limit) ELSE <<>>

\* the entry appended for a requested item r given its candidates
MenuEntry(r, cands) ==
  IF Len(cands) > 0 /\ cands[1].id # ""
    THEN <<[item_id |-> cands[1].id, display |-> cands[1].name, qty |-> r.qty]>>
    ELSE <<>>

\* map_to_menu_items: an unresolved name adds nothing to the result
RECURSIVE map_to_menu_items(_, _)
map_to_menu_items(requested, dbUp) ==
  IF Len(requested) = 0 THEN <<>>
  ELSE MenuEntry(Head(requested), find_item_candidates_by_name(Head(requested).name, 1, dbUp))
       \o map_to_menu_items(Tail(requested), dbUp)

Action(type, items, original, method, pid) ==
  [type |-> type, items |-> items, original |-> original, payment_method |-> method,
   payment_intent_id |-> pid]

NoAction == Action("none", <<>>, <<>>, "", "")

\* the add / remove outcome for the parsed items and their menu mapping
ItemsAction(type, prompt, items_req, mapped, original) ==
  IF Len(items_req) > 0
    THEN IF Len(mapped) > 0 THEN Action(type, mapped, original, "", "")
         ELSE Action("disambiguate", <<>>, <<>>, "", "")
    ELSE Action(prompt, <<>>, <<>>, "", "")

\* the pattern cascade of extract_action on the stripped text t and its lowering
ClassifyAction(t, low, items_req, dbUp) ==
  IF MatchesShowCart(low) THEN Action("show_cart", <<>>, <<>>, "", "")
  ELSE IF MatchesCheckout(low)
    THEN Action("checkout", <<>>, <<>>, extract_payment_method(low), "")
  ELSE IF MatchesConfirm(low)
    THEN Action("confirm_order", <<>>, <<>>, "", PaymentIntentId(t))
  ELSE IF MatchesAdd(low)
    THEN ItemsAction("add_multiple", "prompt_for_items", items_req,
                     map_to_menu_items(items_req, dbUp), <<>>)
  ELSE IF MatchesRemove(low)
    THEN ItemsAction("remove_multiple", "prompt_for_remove", items_req,
                     map_to_menu_items(items_req, dbUp), items_req)
  ELSE NoAction

\* extract_action(user_msg); NoAction stands for None
extract_action(user_msg, dbUp) ==
  ClassifyAction(Strip(user_msg), Lower(Strip(user_msg)), parse_items_with_qty(Strip(user_msg)),
                 dbUp)

(***************************************************************************)
(* Payment-error decoding                                                  *)
(***************************************************************************)
\* str(n) for an integer
RECURSIVE NatToStr(_)
NatToStr(n) == IF n < 10 THEN DigitChars[n + 1] ELSE NatToStr(n \div 10) \o DigitChars[(n % 10) + 1]

IntToStr(n) == IF n < 0 THEN "-" \o NatToStr(0 - n) ELSE NatToStr(n)

\* keys of a table found in the lowered text, in the table's order
FoundKeys(table, low) ==
  LET hits == SelectSeq(table, LAMBDA e : Contains(low, e[1]))
  IN [i \in 1..Len(hits) |-> hits[i][1]]

IsValueChar(c) == IsAlpha(c) \/ IsDigit(c) \/ c = "_" \/ c = "-"

FieldNames == <<"type", "code", "decline_code">>

\* (type|code|decline_code)\s*["':]\s*["']?([a-zA-Z0-9_\-]+) matched at position i with
\* field f: the position after the match, 0 when there is no match
FieldMatchEnd(t, f, i) ==
  IF ~MatchAt(t, f, i) THEN 0
  ELSE LET a == SkipSpaces(t, i + Len(f))
           b == SkipSpaces(t, a + 1)
           c == IF CharAt(t, b) \in {"\"", "'"} THEN b + 1 ELSE b
           run == Cardinality({q \in c..Len(t) : \A k \in c..q : IsValueChar(CharAt(t, k))})
       IN IF CharAt(t, a) \in {"\"", "'", ":"} /\ run >= 1 THEN c + run ELSE 0

FieldMatchValue(t, f, i) ==
  LET a == SkipSpaces(t, i + Len(f))
      b == SkipSpaces(t, a + 1)
      c == IF CharAt(t, b) \in {"\"", "'"} THEN b + 1 ELSE b
  IN SubSeq(t, c, FieldMatchEnd(t, f, i) - 1)

\* the first field (in the alternation's order) matching at position i, 0 when none
FirstField(hits) == IF hits = {} THEN 0 ELSE Least(hits)

FieldAt(t, i) == FirstField({k \in 1..Len(FieldNames) : FieldMatchEnd(t, FieldNames[k], i) > 0})

\* re.finditer over t: the <<field, value>> pairs, left to right, without overlap
RECURSIVE ScanFields(_, _)
ScanField(t, f, p) ==
  <<<<NormKey(f), NormKey(FieldMatchValue(t, f, p))>>>> \o ScanFields(t, FieldMatchEnd(t, f, p))

ScanAt(t, p) == ScanField(t, FieldNames[FieldAt(t, p)], p)

ScanStarts(t, starts) == IF starts = {} THEN <<>> ELSE ScanAt(t, Least(starts))

ScanFields(t, i) == ScanStarts(t, {p \in i..Len(t) : FieldAt(t, p) > 0})

\* the found list after the structured fields are added
RECURSIVE AddFields(_, _, _, _)
AddFields(found, pairs, field, table) ==
  IF Len(pairs) = 0 THEN found
  ELSE LET p == Head(pairs)
           hit == p[1] = field /\ p[2] \in KeySet(table) /\ p[2] \notin SeqToSet(found)
       IN AddFields(IF hit THEN Append(found, p[2]) ELSE found, Tail(pairs), field, table)

STRIPE_REPLY_MAX == 900

StripeGeneric ==
  "I can help with Stripe errors. If you paste the JSON (type / code / decline_code), I'll decode it."

StripeNextSteps ==
  "Next steps: confirm the exact error fields, retry only idempotently, or collect a new payment method / contact bank if it's a decline."

\* the decline explanation only beside the card_declined code
PrimaryByCodeOnly(found_types, found_codes, found_declines) ==
  IF "card_declined" \in SeqToSet(found_codes) /\ Len(found_declines) > 0
    THEN <<"Stripe says **card_declined / " \o found_declines[1] \o "** - "
           \o Lookup(StripeDeclineCodes, found_declines[1])>>
  ELSE IF Len(found_codes) > 0
    THEN <<"Stripe **" \o found_codes[1] \o "** - " \o Lookup(StripeCodes, found_codes[1])>>
  ELSE IF Len(found_types) > 0
    THEN <<"Stripe **" \o found_types[1] \o "** - " \o Lookup(StripeTypes, found_types[1])>>
  ELSE <<>>

\* the primary explanation line chosen by explain_stripe_error, <<>> when none
StripePrimary(found_types, found_codes, found_declines) ==
  IF ("card_declined" \in SeqToSet(found_codes) \/ "card_error" \in SeqToSet(found_types))
     /\ Len(found_declines) > 0
    THEN <<"Stripe says **card_declined / " \o found_declines[1] \o "** - "
           \o Lookup(StripeDeclineCodes, found_declines[1])>>
  ELSE IF Len(found_codes) > 0
    THEN <<"Stripe **" \o found_codes[1] \o "** - " \o Lookup(StripeCodes, found_codes[1])>>
  ELSE IF Len(found_types) > 0
    THEN <<"Stripe **" \o found_types[1] \o "** - " \o Lookup(StripeTypes, found_types[1])>>
  ELSE <<>>

\* the keys of a table found in the text or given by a structured field
StripeFound(low, pairs, field, table) == AddFields(FoundKeys(table, low), pairs, field, table)

\* the status line, <<>> when no intent status is mentioned
StripeStatusLine(found_statuses) ==
  IF Len(found_statuses) > 0
    THEN <<"Status **" \o found_statuses[1] \o "** - " \o Lookup(StripeIntents, found_statuses[1])>>
    ELSE <<>>

StripeLines(lines) == IF Len(lines) = 0 THEN <<StripeGeneric>> ELSE lines

\* trim_text(reply, 900)
TrimReply(reply) ==
  IF Len(reply) > STRIPE_REPLY_MAX
    THEN RStripChars(SubSeq(reply, 1, STRIPE_REPLY_MAX), Whitespace) \o "..."
    ELSE reply

\* the reply for the lowered text and the structured fields found in the text
StripeDecode(low, pairs) ==
  TrimReply(Join(Append(StripeLines(StripePrimary(StripeFound(low, pairs, "type", StripeTypes),
                                                  StripeFound(low, pairs, "code", StripeCodes),
                                                  StripeFound(low, pairs, "decline_code",
                                                              StripeDeclineCodes))
                                    \o StripeStatusLine(FoundKeys(StripeIntents, low))),
                        StripeNextSteps), " "))

explain_stripe_error(text) == StripeDecode(Lower(text), ScanFields(text, 1))

(***************************************************************************)
(* Order documents.  An order carries the fields the handlers read: _id    *)
(* (oid, increasing with creation), the owner, date, amount, status, the   *)
(* paid flag "payment", paymentInfo.status, paymentInfo.stripe and items.  *)
(* An absent string field is "", an absent date or amount is <<>>; a date  *)
(* is <<year, month, day, hour, minute>> in UTC and an amount is <<n>> in  *)
(* whole dollars.                                                          *)
(***************************************************************************)
NoDate == <<>>

NoStripe ==
  [status |-> "", errorCode |-> "", errorMessage |-> "", sessionId |-> "",
   paymentIntentId |-> "", paidAt |-> NoDate]

Order(oid, uid, date, amount, status, paid, infoStatus, stripe, items) ==
  [oid |-> oid, userId |-> uid, date |-> date, amount |-> amount, status |-> status,
   payment |-> paid, paymentInfoStatus |-> infoStatus, stripe |-> stripe, items |-> items]

\* None: no order found
NoOrder == Order(0, "", NoDate, <<>>, "", FALSE, "", NoStripe, <<>>)

MonthAbbr == <<"Jan", "Feb", "Mar", "Apr", "May", "Jun", "Jul", "Aug", "Sep", "Oct", "Nov", "Dec">>

Pad2(n) == IF n < 10 THEN "0" \o NatToStr(n) ELSE NatToStr(n)

\* to_safe_dt(v).strftime("%b %d, %Y %H:%M %Z"); a naive datetime is taken as UTC
FmtDateTime(d) ==
  MonthAbbr[d[2]] \o " " \o Pad2(d[3]) \o ", " \o NatToStr(d[1]) \o " "
    \o Pad2(d[4]) \o ":" \o Pad2(d[5]) \o " UTC"

\* _fmt_date(d): strftime("%b %d, %Y") or "unknown date"
fmt_date(d) ==
  IF d = NoDate THEN "unknown date"
  ELSE MonthAbbr[d[2]] \o " " \o Pad2(d[3]) \o ", " \o NatToStr(d[1])

\* the sort key of a date; an absent date sorts below every date
DateKey(d) ==
  IF d = NoDate THEN 0
  ELSE ((((d[1] * 12 + d[2]) * 31 + d[3]) * 24 + d[4]) * 60 + d[5])

\* {"$sort": {"_dt": -1, "_id": -1}}: a comes before b
NewerThan(a, b) ==
  \/ DateKey(a.date) > DateKey(b.date)
  \/ DateKey(a.date) = DateKey(b.date) /\ a.oid > b.oid

\* a match stage without the owner filter
OrdersOfAnyone(coll, user_id) == coll

\* _possible_user_id_filters(user_id) applied to the orders of the collection
OrdersOf(coll, user_id) == {o \in coll : o.userId = user_id}

\* get_user_last_order_with_payment(user_id)
get_user_last_order_with_payment(coll, user_id, dbUp) ==
  IF ~dbUp \/ user_id = "" \/ user_id = "guest" THEN NoOrder
  ELSE LET mine == OrdersOf(coll, user_id)
       IN IF mine = {} THEN NoOrder
          ELSE CHOOSE o \in mine : \A p \in mine \ {o} : NewerThan(o, p)

\* a success test that lets a recorded error code override the success signals: the
\* behaviour C9 rules out
SuccessUnlessErrorCode(order) ==
  /\ \/ order.payment
     \/ Upper(Strip(order.status)) \in {"PAID", "COMPLETED", "FULFILLED"}
     \/ Lower(Strip(order.stripe.status)) = "succeeded"
  /\ Strip(order.stripe.errorCode) = ""

\* a success test that does not read the provider status: the behaviour C10 rules out
SuccessByFlagsOnly(order) ==
  \/ order.payment
  \/ Upper(Strip(order.status)) \in {"PAID", "COMPLETED", "FULFILLED"}

\* is_success of explain_last_order_payment: paid flag, completed status or provider success
IsSuccess(order) ==
  \/ order.payment
  \/ Upper(Strip(order.status)) \in {"PAID", "COMPLETED", "FULFILLED"}
  \/ Lower(Strip(order.stripe.status)) = "succeeded"

PAYMENT_ID_PREFIX == 8

\* the success reply of explain_last_order_payment
SuccessReply(order) ==
  LET dt_raw == IF order.date # NoDate THEN order.date ELSE order.stripe.paidAt
      when == IF dt_raw = NoDate THEN "unknown time" ELSE FmtDateTime(dt_raw)
      intent_id == Strip(order.stripe.paymentIntentId)
      sess_id == Strip(order.stripe.sessionId)
      tail_bits ==
        (IF intent_id # "" THEN <<"intent " \o Take(intent_id, PAYMENT_ID_PREFIX) \o "...">> ELSE <<>>)
        \o (IF sess_id # "" THEN <<"session " \o Take(sess_id, PAYMENT_ID_PREFIX) \o "...">> ELSE <<>>)
      parts ==
        <<"Your last payment was successful">>
        \o (IF order.amount # <<>> THEN <<"for $" \o IntToStr(order.amount[1])>> ELSE <<>>)
        \o <<"on " \o when \o ".">>
        \o (IF Len(tail_bits) > 0 THEN <<"(" \o Join(tail_bits, ", ") \o ")">> ELSE <<>>)
  IN Join(parts, " ")

\* the non-empty strings of seq, in order
NonEmpty(seq) == SelectSeq(seq, LAMBDA s : s # "")

\* f"{label}{s}" when s is non-empty
Labelled(label, s) == IF s = "" THEN "" ELSE label \o s

\* the probe entries taken from paymentInfo.stripe: errorCode, errorMessage, status
StripeProbe(order) ==
  NonEmpty(<<Labelled("code: ", Strip(order.stripe.errorCode)),
             Strip(order.stripe.errorMessage),
             Labelled("status: ", Lower(Strip(order.stripe.status)))>>)

\* the probe entry taken from the order status, used when the provider gave nothing
StatusProbe(order) == NonEmpty(<<Labelled("status: ", Lower(Upper(Strip(order.status))))>>)

\* the probe text built from the failure fields of the order
FailureProbe(order) ==
  IF Len(StripeProbe(order)) = 0 THEN StatusProbe(order) ELSE StripeProbe(order)

NoPreviousTransaction == "I couldn't find a previous transaction for your account yet."

PaymentNotSucceeded ==
  "It looks like the last payment did not succeed. Please try another card or contact your bank, and you can try again."

explain_last_order_payment(order) ==
  IF order = NoOrder THEN NoPreviousTransaction
  ELSE IF IsSuccess(order) THEN SuccessReply(order)
  ELSE IF Len(FailureProbe(order)) = 0 THEN PaymentNotSucceeded
  ELSE explain_stripe_error(Join(FailureProbe(order), " | "))

(***************************************************************************)
(* Categories and popularity                                               *)
(***************************************************************************)
CategoryWords ==
  <<"sandwich", "roll", "rolls", "salad", "dessert", "desserts", "cake", "pasta",
    "noodle", "noodles", "veg", "pure veg">>

SYNONYMS ==
  << <<"sub", "sandwich">>, <<"subs", "sandwich">>, <<"hoagie", "sandwich">>,
     <<"wrap", "rolls">>, <<"wraps", "rolls">>,
     <<"desert", "desserts">>, <<"deserts", "desserts">>,
     <<"pure veg", "veg">> >>

\* category_from_query(text); "" stands for None
category_from_query(text) ==
  LET lower == Lower(text)
      hits == SelectSeq(CategoryWords, LAMBDA raw : Contains(lower, raw))
      alias == SelectSeq(SYNONYMS, LAMBDA e : Contains(lower, e[1]))
  IN IF Len(hits) > 0
       THEN (IF hits[1] = "roll" THEN "rolls"
             ELSE IF hits[1] = "dessert" THEN "desserts"
             ELSE IF hits[1] = "pure veg" THEN "veg"
             ELSE RStripChars(hits[1], {"s"}))
     ELSE IF Len(alias) > 0 THEN alias[1][2]
     ELSE ""

\* the categories fetch_map of the chat handlers has a fetcher for
FetchMapKeys == {"sandwich", "rolls", "salad", "desserts", "cake", "pasta", "noodles", "veg"}

Reverse(seq) == [i \in 1..Len(seq) |-> seq[Len(seq) + 1 - i]]

\* a sort on a key leaves the order of equal keys to the store: the documents come in
\* insertion order or in the reverse of it
TieBreaks == {"natural", "reverse"}

Arrange(seq, tie) == IF tie = "reverse" THEN Reverse(seq) ELSE seq

\* sort(key, -1): largest key first, equal keys in the arranged order
RECURSIVE SortDesc(_, _)
SortDesc(seq, key) ==
  IF Len(seq) = 0 THEN <<>>
  ELSE LET n == Len(seq)
           top == CHOOSE i \in 1..n :
                    /\ \A j \in 1..n : key[seq[i]] >= key[seq[j]]
                    /\ \A j \in 1..(i - 1) : key[seq[j]] < key[seq[i]]
           rest == [k \in 1..(n - 1) |-> IF k < top THEN seq[k] ELSE seq[k + 1]]
       IN <<seq[top]>> \o SortDesc(rest, key)

\* the orders of the collection in insertion order
RECURSIVE OrdersSeq(_)
OrdersSeq(coll) ==
  IF coll = {} THEN <<>>
  ELSE LET first == CHOOSE o \in coll : \A p \in coll : o.oid <= p.oid
       IN <<first>> \o OrdersSeq(coll \ {first})

\* {"$unwind": "$items"}
RECURSIVE Unwind(_)
Unwind(docs) == IF Len(docs) = 0 THEN <<>> ELSE Head(docs).items \o Unwind(Tail(docs))

RECURSIVE SumQty(_)
SumQty(items) == IF Len(items) = 0 THEN 0 ELSE Head(items).qty + SumQty(Tail(items))

\* the distinct elements of seq in order of first appearance
RECURSIVE Distinct(_)
Distinct(seq) ==
  IF Len(seq) = 0 THEN <<>>
  ELSE LET rest == Distinct(SubSeq(seq, 1, Len(seq) - 1))
       IN IF seq[Len(seq)] \in SeqToSet(rest) THEN rest ELSE Append(rest, seq[Len(seq)])

\* the food documents whose category matches ^category$ case-insensitively, in insertion order
FoodsInCategory(category) ==
  SelectSeq(STATIC_FOODS, LAMBDA f : Lower(f.category) = Lower(category))

\* top_items_from_orders(limit, category): names grouped over the items of all orders
top_items_from_orders(coll, limit, category, dbUp, tie) ==
  IF ~dbUp THEN <<>>
  ELSE
    LET items == Unwind(OrdersSeq(coll))
        InCat(nm) == \E i \in 1..Len(STATIC_FOODS) :
                       /\ Lower(STATIC_FOODS[i].name) = Lower(nm)
                       /\ Lower(STATIC_FOODS[i].category) = Lower(category)
        Canon(nm) == STATIC_FOODS[CHOOSE i \in 1..Len(STATIC_FOODS) :
                                    /\ Lower(STATIC_FOODS[i].name) = Lower(nm)
                                    /\ Lower(STATIC_FOODS[i].category) = Lower(category)].name
        kept == IF category # "" THEN SelectSeq(items, LAMBDA it : InCat(it.name)) ELSE items
        GroupKey(it) == IF category # "" THEN Canon(it.name) ELSE Lower(it.name)
        keys == Distinct([i \in 1..Len(kept) |-> GroupKey(kept[i])])
        total == [k \in SeqToSet(keys) |-> SumQty(SelectSeq(kept, LAMBDA it : GroupKey(it) = k))]
        rows == Take(SortDesc(Arrange(keys, tie), total), limit)
    IN SelectSeq(rows, LAMBDA nm : nm # "")

\* top_items_from_foods(limit, category): names by the orders counter
top_items_from_foods(store, limit, category, dbUp, tie) ==
  IF ~dbUp THEN <<>>
  ELSE
    LET docs == IF category # "" THEN FoodsInCategory(category) ELSE STATIC_FOODS
        names == SelectSeq([i \in 1..Len(docs) |-> docs[i].name], LAMBDA nm : nm \in DOMAIN store)
    IN Take(SortDesc(Arrange(names, tie), store), limit)

MAX_POPULAR == 5

MAX_RECENT == 5

\* get_popular_items(limit)
get_popular_items(store, dbUp, tie) == top_items_from_foods(store, MAX_POPULAR, "", dbUp, tie)

\* _names_for(cat, limit): the names of a category, the first `limit` of them
names_for(store, cat, limit, dbUp) ==
  IF ~dbUp THEN <<>>
  ELSE LET docs == FoodsInCategory(cat)
       IN Take(SelectSeq([i \in 1..Len(docs) |-> docs[i].name], LAMBDA nm : nm \in DOMAIN store),
               limit)

\* the draft of the popularity branch
PopularityDraft(cat, names) ==
  IF cat # ""
    THEN "Our most-ordered " \o RStripChars(cat, {"s"}) \o " right now: " \o Join(names, ", ") \o "."
    ELSE "Top items customers are ordering: " \o Join(names, ", ") \o "."

CATEGORY_NAMES_LIMIT == 20

CATEGORY_REPLY_LIMIT == 10

\* the draft of the category branch
CategoryDraft(cat, names) ==
  "Our " \o RStripChars(cat, {"s"}) \o " options include: "
    \o Join(Take(names, CATEGORY_REPLY_LIMIT), ", ") \o "."

\* format_item_detail(item)
format_item_detail(item) ==
  LET cat == RStripChars(item.category, {"s"})
      desc == Strip(item.description)
      bits == <<item.name \o " ($" \o IntToStr(item.price) \o ")">>
              \o (IF cat # "" THEN <<"- " \o cat>> ELSE <<>>)
              \o (IF desc # "" THEN <<": " \o desc>> ELSE <<>>)
  IN Join(bits, " ")

(***************************************************************************)
(* Language-model helpers.  The model call is an adapter: it raises, gives *)
(* empty text, or gives some text.  Two texts stand for all of them: one   *)
(* that names only menu items and one that names a dish the menu does not  *)
(* have.                                                                   *)
(***************************************************************************)
LlmOutcomes == {"error", "empty", "faithful", "offmenu"}

OffMenuName == "Truffle Pizza"

LlmText(outcome) ==
  IF outcome = "faithful" THEN "Happy to help! Our Greek salad is a customer favourite."
  ELSE IF outcome = "offmenu" THEN "You should try our " \o OffMenuName \o ", it is the best seller."
  ELSE ""

\* llm_compose(system_prompt, content): the content itself when there is no client, when
\* the call raises and when the output is empty
llm_compose(content, clientUp, outcome) ==
  IF ~clientUp THEN content
  ELSE IF outcome = "error" THEN content
  ELSE IF Strip(LlmText(outcome)) = "" THEN content
  ELSE Strip(LlmText(outcome))

\* list_all_food_names()
list_all_food_names(store, dbUp) ==
  IF ~dbUp THEN <<>> ELSE SelectSeq(MenuNames, LAMBDA nm : nm \in DOMAIN store)

RewriteRules ==
  "Rules:\n"
  \o "* ONLY reference items that appear in Menu.\n"
  \o "* If the user mentions an item not in Menu, say it isn't on our menu and suggest the closest 1-3 matches by name only.\n"
  \o "* Do not invent ingredients, prices, sizes, or availability beyond the provided Descriptions.\n"
  \o "* Keep it under ~80 words unless the customer explicitly asks for more.\n"

\* the prompt guarded_rewrite hands to llm_compose
RewriteContent(store, dbUp, user_msg, draft) ==
  RewriteRules \o "\nMenu: " \o Join(list_all_food_names(store, dbUp), ", ")
    \o "\n\nCustomer: " \o user_msg \o "\nDraft: " \o draft
    \o "\nRewrite the Draft to answer the Customer. Stay faithful to the Draft."

guarded_rewrite(store, dbUp, user_msg, draft, clientUp, outcome) ==
  llm_compose(RewriteContent(store, dbUp, user_msg, draft), clientUp, outcome)

\* _fmt_items(items) over the documents of one category
fmt_items(docs) ==
  Join([i \in 1..Len(docs) |-> docs[i].name \o " ($" \o IntToStr(docs[i].price) \o ")"], ", ")

\* _items_for(cat, limit)
items_for(store, cat, dbUp) ==
  IF ~dbUp THEN <<>>
  ELSE Take(SelectSeq(FoodsInCategory(cat), LAMBDA f : f.name \in DOMAIN store), MAX_POPULAR)

\* str(ObjectId) of an order
OrderIdStr(o) == "66b2f0" \o NatToStr(o.oid)

\* get_user_recent_orders(user_id): the order ids of the user; the sort key order_date is
\* absent from every document, so the order of the ids is the store's
get_user_recent_orders(coll, user_id, dbUp, tie) ==
  IF ~dbUp \/ user_id = "" \/ user_id = "guest" THEN <<>>
  ELSE LET mine == Arrange(OrdersSeq(OrdersOf(coll, user_id)), tie)
       IN Take([i \in 1..Len(mine) |-> OrderIdStr(mine[i])], MAX_RECENT)

ContextSections ==
  << <<"Sandwich options: ", "sandwich">>, <<"Rolls options: ", "rolls">>,
     <<"Salad options: ", "salad">>, <<"Dessert options: ", "desserts">>,
     <<"Cake options: ", "cake">>, <<"Pasta options: ", "pasta">>,
     <<"Noodles options: ", "noodles">>, <<"Veg options: ", "veg">> >>

\* the long-term memory collaborator: memory is None, it works, memory.search raises,
\* memory.add raises
MemoryStates == {"off", "ok", "search_raises", "add_raises"}

\* what a working search returns for the message
MemoryNote == "Prefers dishes without onions"

\* memory lines kept from a search that raised
LinesUnlessOff(mem) == IF mem = "off" THEN <<>> ELSE <<"- " \o MemoryNote>>

\* mem_lines of build_context: the try block around memory.search leaves the list empty
\* when the call raises
mem_lines(mem) == IF mem = "ok" \/ mem = "add_raises" THEN <<"- " \o MemoryNote>> ELSE <<>>

\* build_context(user_msg, user_id)
build_context(store, coll, user_id, dbUp, tie, mem) ==
  LET popular == get_popular_items(store, dbUp, tie)
      recent == get_user_recent_orders(coll, user_id, dbUp, tie)
      menu_names == list_all_food_names(store, dbUp)
      sections == SelectSeq(ContextSections, LAMBDA s : Len(items_for(store, s[2], dbUp)) > 0)
      ctx_parts ==
        (IF Len(mem_lines(mem)) > 0
           THEN <<"Relevant past information:\n" \o Join(mem_lines(mem), "\n")>> ELSE <<>>)
        \o (IF Len(popular) > 0 THEN <<"Popular dishes: " \o Join(popular, ", ")>> ELSE <<>>)
        \o (IF Len(recent) > 0 THEN <<"User recent orders: " \o Join(recent, ", ")>> ELSE <<>>)
        \o [i \in 1..Len(sections) |->
              sections[i][1] \o fmt_items(items_for(store, sections[i][2], dbUp))]
        \o (IF Len(menu_names) > 0 THEN <<"Menu (names only): " \o Join(menu_names, ", ")>> ELSE <<>>)
  IN IF Len(ctx_parts) > 0 THEN "Database context:\n" \o Join(ctx_parts, "\n") \o "\n" ELSE ""

DefaultDraft == "How can I help with our menu, your order, or delivery?"

\* the prompt of the generic fallback
DefaultContent(db_context, user_msg) ==
  db_context \o "\nCustomer: " \o user_msg \o "\nDraft: " \o DefaultDraft
    \o "\nFollow the rules above."

(***************************************************************************)
(* The order service, seen through OrderClient.  A call of the client is   *)
(* one step with an outcome: the JSON body of a 2xx answer, or the         *)
(* RuntimeError raised when every candidate path failed.  A cart body is   *)
(* a JSON object with its keys in order, or a JSON array.                  *)
(***************************************************************************)
Call(op, item, qty, arg) == [op |-> op, item |-> item, qty |-> qty, arg |-> arg]

CartPayload(kind, keys, cartData, items) ==
  [kind |-> kind, keys |-> keys, cartData |-> cartData, items |-> items]

\* get_cart raised: every GET candidate and the POST fallback failed
CartFail == CartPayload("fail", <<>>, <<>>, <<>>)

\* no cart was fetched during the request
NoCart == CartPayload("none", <<>>, <<>>, <<>>)

\* a non-empty JSON array instead of an object
CartArray == CartPayload("list", <<>>, <<>>, <<>>)

\* {}
CartEmptyObject == CartPayload("dict", <<>>, <<>>, <<>>)

\* {"success": true, "cartData": {id: qty}}
CartNode(data) == CartPayload("dict", <<"success", "cartData">>, data, <<>>)

\* {"items": [{itemId, name, qty}]}
CartItems(items) == CartPayload("dict", <<"items">>, <<>>, items)

CartItem(id, name, qty) == [id |-> id, name |-> name, qty |-> qty]

CartPayloads ==
  { CartFail, CartArray, CartEmptyObject,
    CartNode(<< <<"f30", 2>> >>),
    CartNode(<< <<"f30", 0>>, <<"f01", 1>> >>),
    CartItems(<< CartItem("f30", "Veg Noodles", 2) >>) }

\* _foods_name_map_by_ids(ids): the display name of an id, the id itself when unknown
FoodNameById(id, dbUp) ==
  IF dbUp /\ \E i \in 1..Len(STATIC_FOODS) : STATIC_FOODS[i].id = id
    THEN STATIC_FOODS[CHOOSE i \in 1..Len(STATIC_FOODS) : STATIC_FOODS[i].id = id].name
    ELSE id

\* int(q or 1): a quantity of 0 reads as 1
QtyOrOne(q) == IF q = 0 THEN 1 ELSE q

\* _normalize_cart_items(payload)
normalize_cart_items(payload, dbUp) ==
  IF Len(payload.items) = 0 /\ Len(payload.cartData) > 0
    THEN [i \in 1..Len(payload.cartData) |->
            CartItem(payload.cartData[i][1], FoodNameById(payload.cartData[i][1], dbUp),
                     QtyOrOne(payload.cartData[i][2]))]
    ELSE [i \in 1..Len(payload.items) |->
            CartItem(Strip(payload.items[i].id),
                     IF Strip(payload.items[i].name) = "" /\ Strip(payload.items[i].id) # ""
                       THEN FoodNameById(Strip(payload.items[i].id), dbUp)
                       ELSE Strip(payload.items[i].name),
                     QtyOrOne(payload.items[i].qty))]

\* _index_cart_by_name(items)[key]: the last item under the key, <<>> when there is none
IndexGet(items, key) ==
  LET hits == {i \in 1..Len(items) : Lower(Strip(items[i].name)) = key /\ key # ""}
  IN IF hits = {} THEN <<>>
     ELSE <<items[CHOOSE i \in hits : \A j \in hits : j <= i]>>

\* _items_from_cart_map(cart_map): names and quantities, zero and negative quantities skipped
items_from_cart_map(cart_map, dbUp) ==
  IF Len(cart_map) = 0 \/ ~dbUp THEN <<>>
  ELSE LET kept == SelectSeq(cart_map, LAMBDA e : e[2] > 0)
       IN [i \in 1..Len(kept) |-> CartItem("", FoodNameById(kept[i][1], dbUp), kept[i][2])]

(***************************************************************************)
(* Responses.  kind is "reply" (200 with a reply text), "http_error" (an   *)
(* HTTPException or an error status) or "internal_error" (the 500 body of  *)
(* add_request_id).  source is the X-Answer-Source header, branch the code *)
(* path that returned, draft the deterministic draft of a rewritten reply, *)
(* llm how the language model was engaged.                                 *)
(***************************************************************************)
Resp(kind, status, reply, detail, source, branch, draft, llm) ==
  [kind |-> kind, status |-> status, reply |-> reply, detail |-> detail, source |-> source,
   branch |-> branch, draft |-> draft, llm |-> llm]

Reply(text, source, branch) == Resp("reply", 200, text, "", source, branch, "", "none")

\* a rejection answered like a served request, with an empty reply
EmptyReply(status, detail) == Resp("reply", 200, "", detail, "", "reject", "", "none")

HttpError(status, detail) == Resp("http_error", status, "", detail, "", "reject", "", "none")

\* an exception that leaves the handler: add_request_id answers 500 with the exception type
Crash(type, branch) == Resp("internal_error", 500, "", type, "", branch, "", "none")

NoResp == Resp("none", 0, "", "", "", "", "", "none")

\* what a handler run leaves behind: the response, the calls sent to the order service, the
\* foods counters and the queries run on the orders collection
Out(r, calls, store) == [resp |-> r, calls |-> calls, store |-> store, queries |-> {}]

Querying(out, queries) == [out EXCEPT !.queries = queries]

\* how the model was engaged by a rewrite: "noclient" when there is no client
Engaged(clientUp, outcome) == IF clientUp THEN outcome ELSE "noclient"

\* a reply that went through guarded_rewrite when FORCE_LLM is set
Rewritten(store, dbUp, user_msg, draft, forceLLM, clientUp, outcome, source, branch) ==
  IF forceLLM
    THEN Resp("reply", 200, guarded_rewrite(store, dbUp, user_msg, draft, clientUp, outcome), "",
              "rule+llm:" \o source, branch, draft, Engaged(clientUp, outcome))
    ELSE Reply(draft, "rule:" \o source, branch)

(***************************************************************************)
(* Requests                                                                *)
(***************************************************************************)
Messages ==
  { "", "   ",
    "card_declined what is the best dish",
    "insufficient_funds hot",
    "why did my payment fail",
    "payment failed card_declined",
    "code: card-declined",
    "show my recent orders",
    "clear my cart",
    "show cart",
    "checkout",
    "pay with cash",
    "confirm payment pi_3Abc",
    "confirm payment",
    "add Greek salad x 2, Veg Noodles",
    "add Veg Noodles",
    "add Greek salad x 0",
    "add Greek salad x -3",
    "add Dragon Burger",
    "add Greek salad, Dragon Burger",
    "remove Veg Noodles",
    "remove Veg Noodles x 3",
    "remove Greek salad x 2, Veg Noodles",
    "remove 2",
    "remove Veg Noodles, add Greek salad",
    "what is popular",
    "popular desserts",
    "best noodles",
    "what desserts do you have",
    "what noodles do you have",
    "what salad do you have",
    "what veg dishes do you have",
    "Greek salad",
    "salad",
    "ice cream",
    "hello" }

\* the messages sent to the Flask handler
\* the add requests of the specification of the add branch
AddMessages ==
  { "add Rice Zucchini x 2, Clover Salad",
    "add Greek salad x 2, Veg Noodles",
    "add Veg Noodles",
    "add Greek salad, Dragon Burger",
    "add Dragon Burger" }

\* the remove requests of the specification of the remove branch
RemoveMessages ==
  { "remove Veg Noodles x 2, Veg Noodles x 2",
    "remove Veg Noodles, Veg Noodles",
    "remove Veg Noodles x 2, Greek salad",
    "remove Veg Noodles x 3" }

Utterances == Messages \cup AddMessages \cup RemoveMessages

IndexMessages ==
  { "", "   ", "card_declined what is the best dish", "why did my payment fail",
    "what is popular", "popular desserts", "best noodles", "what desserts do you have",
    "what noodles do you have", "hello" }

\* userId of the request body: absent, the guest id, a signed-in user
UserIds == {"", "guest", "u1"}

\* the credentials a request forwards: none, Authorization: Bearer, X-User-Cookie
Credentials == {"none", "bearer", "cookie"}

\* jwt_token as the handler reads it from the headers
JwtToken(creds) ==
  LET header == IF creds = "bearer" THEN "Bearer tok1" ELSE ""
  IN IF StartsWith(Lower(header), "bearer ") THEN Strip(SubSeq(header, 8, Len(header)))
     ELSE header

\* fwd_cookie as the handler reads it from the headers
FwdCookie(creds) == IF creds = "cookie" THEN "sid=1" ELSE ""

\* REQUIRE_AUTH_FOR_ORDER and not (jwt_token or fwd_cookie)
AuthMissing(requireAuth, jwt_token, fwd_cookie) ==
  requireAuth /\ jwt_token = "" /\ fwd_cookie = ""

\* the classifications of the messages, computed once
PaymentStatusQueries == {m \in Utterances : is_payment_status_query(Strip(m))}

StripeQueries == {m \in Utterances : is_stripe_query(Strip(m))}

PreviousOrdersQueries == {m \in Utterances : is_previous_orders_query(Strip(m))}

PopularityQueries == {m \in Utterances : is_popularity_query(Strip(m))}

CategoryOf == [m \in Utterances |-> category_from_query(Strip(m))]

StripeReplyOf == [m \in StripeQueries |-> explain_stripe_error(Strip(m))]

ActionOf == [d \in BOOLEAN |-> [m \in Utterances |-> extract_action(Strip(m), d)]]

\* find_item_candidates_by_name(user_msg, limit=3)
ITEM_CANDIDATES == 3

CandidatesOf == [m \in Utterances |-> FindCandidatesUp(Strip(m), ITEM_CANDIDATES)]

\* _similar(user_msg, candidates[0].name) < 0.88
BelowDisambiguation ==
  {m \in Utterances : Len(CandidatesOf[m]) > 1
                    /\ ~RatioAtLeast(Similar(Strip(m), CandidatesOf[m][1].name), DISAMBIGUATE_BELOW)}

(***************************************************************************)
(* The orders the order service may have written for the signed-in user    *)
(***************************************************************************)
OrderDocs ==
  { Order(1, "u1", <<2026, 1, 5, 10, 0>>, <<24>>, "Food Processing", FALSE, "",
          [NoStripe EXCEPT !.status = "succeeded", !.errorCode = "card_declined",
                           !.paymentIntentId = "pi_3Abc123456789"],
          << [name |-> "Greek salad", qty |-> 2] >>),
    Order(2, "u1", <<2026, 2, 7, 18, 30>>, <<12>>, "Food Processing", FALSE, "succeeded",
          NoStripe,
          << [name |-> "Veg Noodles", qty |-> 1], [name |-> "Greek salad", qty |-> 1] >>),
    Order(3, "u1", <<2026, 3, 9, 9, 5>>, <<10>>, "Food Processing", FALSE, "failed",
          [NoStripe EXCEPT !.status = "requires_payment_method", !.errorCode = "card_declined",
                           !.errorMessage = "Your card has insufficient funds."],
          << [name |-> "Jar Ice Cream", qty |-> 1] >>) }

\* orders the order service wrote for another user, one newer and one older than every
\* order of the signed-in user
ForeignOrderDocs ==
  { Order(4, "u2", <<2026, 5, 1, 8, 0>>, <<31>>, "Food Processing", FALSE, "failed",
          [NoStripe EXCEPT !.status = "requires_payment_method", !.errorCode = "expired_card"],
          << [name |-> "Clover Salad", qty |-> 3] >>),
    Order(5, "u2", <<2025, 12, 24, 20, 15>>, <<45>>, "Delivered", TRUE, "succeeded",
          [NoStripe EXCEPT !.status = "succeeded"],
          << [name |-> "Vanilla Ice Cream", qty |-> 2] >>) }

\* the messages that ask about the user's own orders
OrdersMessages ==
  {"why did my payment fail", "show my recent orders", "payment failed card_declined"}

ExplanationOf ==
  [o \in OrderDocs \cup ForeignOrderDocs \cup {NoOrder} |-> explain_last_order_payment(o)]

(***************************************************************************)
(* The branches of the FastAPI chat handler                                *)
(***************************************************************************)
PaymentLoginRequired ==
  "Please log in to check your last transaction status. Once signed in, ask again."

\* the last-payment branch
PaymentBranch(coll, user_id, dbUp) ==
  IF user_id = "" \/ user_id = "guest"
    THEN Reply(PaymentLoginRequired, "rule:payment_login_required", "payment_status")
    ELSE Reply(ExplanationOf[get_user_last_order_with_payment(coll, user_id, dbUp)],
               "rule:payment_last_summary", "payment_status")

\* the queries the last-payment branch runs on the orders collection
PaymentOrdersQueries(user_id, dbUp) ==
  IF user_id = "" \/ user_id = "guest" THEN {}
  ELSE IF dbUp THEN {"get_user_last_order_with_payment"} ELSE {}

\* the raw payment-error branch
StripeBranch(m) == Reply(StripeReplyOf[m], "rule:stripe", "stripe")

\* get_user_recent_orders_detailed(user_id, limit): newest first
RECURSIVE NewestFirst(_)
NewestFirst(coll) ==
  IF coll = {} THEN <<>>
  ELSE LET first == CHOOSE o \in coll : \A p \in coll \ {o} : NewerThan(o, p)
       IN <<first>> \o NewestFirst(coll \ {first})

get_user_recent_orders_detailed(coll, user_id, dbUp) ==
  IF ~dbUp \/ user_id = "" \/ user_id = "guest" THEN <<>>
  ELSE Take(NewestFirst(OrdersOf(coll, user_id)), MAX_RECENT)

RECURSIVE TotalQty(_)
TotalQty(items) == IF Len(items) = 0 THEN 0 ELSE QtyOrOne(Head(items).qty) + TotalQty(Tail(items))

SUMMARY_MAX_ITEMS == 3

SHORT_ID_TAIL == 2

\* _summarize_items(items, max_items=3): the preview text
ItemsPreview(items) ==
  LET named == SelectSeq(items, LAMBDA it : Strip(it.name) # "")
      shown == Take(named, SUMMARY_MAX_ITEMS)
      parts == [i \in 1..Len(shown) |->
                  Strip(shown[i].name) \o " x" \o IntToStr(QtyOrOne(shown[i].qty))]
      more == Max(0, Len(items) - Len(parts))
  IN Join(parts, ", ") \o (IF more > 0 THEN ", +" \o NatToStr(more) \o " more" ELSE "")

\* _short_id(oid)
short_id(s) ==
  IF Len(s) > SHORT_ID_TAIL THEN "..." \o SubSeq(s, Len(s) - SHORT_ID_TAIL + 1, Len(s)) ELSE s

OrderLine(o) ==
  RStripChars("* " \o fmt_date(o.date) \o " - " \o IntToStr(TotalQty(o.items)) \o " items: "
                \o ItemsPreview(o.items) \o " (id " \o short_id(OrderIdStr(o)) \o ")",
              Whitespace)

OrdersLoginRequired ==
  "To show your past orders, please log in. Once you're signed in, ask \"show my recent orders.\""

OrdersNone ==
  "I couldn't find past orders for your account yet. You can place an order and I'll track it here."

\* the previous-orders branch
PreviousOrdersBranch(coll, user_id, dbUp) ==
  IF user_id = "" \/ user_id = "guest"
    THEN Reply(OrdersLoginRequired, "rule:orders_login_required", "previous_orders")
    ELSE LET detailed == get_user_recent_orders_detailed(coll, user_id, dbUp)
         IN IF Len(detailed) > 0
              THEN Reply(Join(<<"Your recent orders:">>
                                \o [i \in 1..Len(detailed) |-> OrderLine(detailed[i])], "\n"),
                         "rule:orders_list_detailed", "previous_orders")
              ELSE Reply(OrdersNone, "rule:orders_none", "previous_orders")

\* the aggregate run for whoever asks, signed in or not
QueryBeforeLoginTest(user_id, dbUp) ==
  IF dbUp THEN {"get_user_recent_orders_detailed"} ELSE {}

\* the queries the previous-orders branch runs on the orders collection
RecentOrdersQueries(user_id, dbUp) ==
  IF user_id = "" \/ user_id = "guest" THEN {}
  ELSE IF dbUp THEN {"get_user_recent_orders_detailed"} ELSE {}

AuthMissingReply == "Please log in to your account, then try again from the same browser."

PromptItemsReply == "Tell me what to add like: \"Rice Zucchini x 1, Clover Salad x 2\"."

PromptRemoveReply ==
  "Tell me what to remove like: \"remove Veg Noodles x 1, Clover Salad x 2\"."

DisambiguateReply ==
  "Did you mean: please share the exact item names? Tell me the exact names, e.g., \"Veg Noodles x 1, Greek salad x 2\"."

\* a counter that counts requests rather than quantities
BumpByOne(store, name, qty, dbUp) ==
  IF dbUp /\ Strip(name) # "" /\ Strip(name) \in DOMAIN store
    THEN [store EXCEPT ![Strip(name)] = @ + 1]
    ELSE store

\* a counter written back from the value read at startup rather than incremented in place
SetFromSeed(store, name, qty, dbUp) ==
  IF dbUp /\ Strip(name) # "" /\ Strip(name) \in DOMAIN store
    THEN [store EXCEPT ![Strip(name)] = POPULARITY_START + QtyOrOne(qty)]
    ELSE store

\* bump_food_orders([{item_id: name, qty}]): $inc on the document with that name
bump_food_orders(store, name, qty, dbUp) ==
  IF dbUp /\ Strip(name) # "" /\ Strip(name) \in DOMAIN store
    THEN [store EXCEPT ![Strip(name)] = @ + QtyOrOne(qty)]
    ELSE store

\* the loop of the add branch from item i on; ok[i] tells whether add_to_cart succeeds
RECURSIVE AddLoop(_, _, _, _, _)
AddLoop(items, ok, i, dbUp, acc) ==
  IF i > Len(items) THEN acc
  ELSE LET it == items[i]
           qty == QtyOrOne(it.qty)
           call == Call("add_to_cart", it.item_id, qty, "")
       IN AddLoop(items, ok, i + 1, dbUp,
            IF ok[i]
              THEN [acc EXCEPT !.calls = Append(@, call),
                               !.store = bump_food_orders(@, it.display, qty, dbUp),
                               !.added = Append(@, it.display \o " x" \o IntToStr(qty))]
              ELSE [acc EXCEPT !.calls = Append(@, call),
                               !.failed = Append(@, it.display)])

\* the add branch
AddBranch(items, ok, store, dbUp) ==
  LET r == AddLoop(items, ok, 1, dbUp,
                   [calls |-> <<>>, store |-> store, added |-> <<>>, failed |-> <<>>])
      text == IF Len(r.added) > 0 /\ Len(r.failed) = 0
                THEN "Added: " \o Join(r.added, ", ") \o ". Say \"show cart\" or \"checkout\"."
              ELSE IF Len(r.added) > 0
                THEN "Added: " \o Join(r.added, ", ") \o ". Couldn't add: "
                       \o Join(r.failed, ", ") \o ". Say \"show cart\" or try again."
              ELSE "I couldn't add those items. Please check the names and try again."
  IN Out(Reply(text, "order:add_multi", "add"), r.calls, r.store)

SHOW_CART_MAX == 5

CartLoadFailed(requireAuth) ==
  "I couldn't load your cart."
    \o (IF requireAuth
          THEN " Please make sure you're signed in and the app forwards your login to chat."
          ELSE "")

CartEmptyReply == "Your cart is empty. Say \"add Veg Noodles x 1\"."

\* the show-cart branch
ShowCartBranch(cart, store, dbUp, requireAuth) ==
  LET payload == IF cart.kind = "dict" THEN cart ELSE CartEmptyObject
      items == IF Len(payload.items) > 0 THEN payload.items
               ELSE items_from_cart_map(payload.cartData, dbUp)
      shown == Take(items, SHOW_CART_MAX)
      parts == [i \in 1..Len(shown) |->
                  (IF shown[i].name # "" THEN Strip(shown[i].name)
                   ELSE IF shown[i].id # "" THEN Strip(shown[i].id) ELSE "item")
                  \o " x" \o IntToStr(QtyOrOne(shown[i].qty))]
      more == Max(0, Len(items) - Len(parts))
      suffix == IF more > 0 THEN " (+" \o NatToStr(more) \o " more)" ELSE ""
      r == IF cart.kind = "fail"
             THEN Reply(CartLoadFailed(requireAuth), "order:show_cart_error", "show_cart")
           ELSE IF Len(items) = 0
             THEN Reply(CartEmptyReply, "order:cart_empty", "show_cart")
           ELSE Reply("In your cart: " \o Join(parts, ", ") \o suffix
                        \o ". Say \"checkout\" to continue.", "order:show_cart", "show_cart")
  IN Out(r, <<Call("get_cart", "", 0, "")>>, store)

\* "not cart or not any(qty > 0 for qty in cart.values())" over the fetched body: the
\* exception it raises, "empty" when the test is true, "nonempty" when it is false.  The
\* first value decides: true > 0 holds for "success", a dict or a list against 0 raises
AnyPositive(cart) ==
  IF Len(cart.keys) = 0 THEN "empty"
  ELSE IF cart.keys[1] = "success" THEN "nonempty"
  ELSE "TypeError"

CheckoutCartTest(cart) ==
  IF cart.kind = "fail" THEN "RuntimeError"
  ELSE IF cart.kind = "list" THEN "AttributeError"
  ELSE AnyPositive(cart)

CheckoutOutcomes == {"fail", "session_url", "clientSecret", "plain"}

UiHint == "Open the Cart at the top-right and click **Checkout** to complete your order."

\* the checkout branch
CheckoutBranch(cart, method, outcome, store) ==
  LET test == CheckoutCartTest(cart)
      fetched == <<Call("get_cart", "", 0, "")>>
      placed == Append(fetched, Call("checkout", "", 0, method))
  IN IF test = "empty" THEN Out(Crash("NameError", "checkout"), fetched, store)
     ELSE IF test # "nonempty" THEN Out(Crash(test, "checkout"), fetched, store)
     ELSE IF outcome = "fail"
       THEN Out(Reply("I couldn't start checkout. Please verify your address and try again.",
                      "", "checkout"), placed, store)
     ELSE IF outcome = "session_url"
       THEN Out(Reply("Secure payment link is ready. " \o UiHint, "order:checkout", "checkout"),
                placed, store)
     ELSE IF outcome = "clientSecret"
       THEN Out(Reply("Payment is ready in the app. " \o UiHint, "order:checkout", "checkout"),
                placed, store)
     ELSE Out(Reply("Checkout is prepared. " \o UiHint, "order:checkout", "checkout"),
              placed, store)

\* the confirm branch; the emoji of the reply is written (tada)
ConfirmBranch(pid, ok, store) ==
  IF pid = ""
    THEN Out(Reply("If you have a Payment Intent ID, paste it and say \"confirm payment\".",
                   "", "confirm"), <<>>, store)
  ELSE IF ok
    THEN Out(Reply("Order confirmed (tada) ETA soon. I'll keep you posted here.",
                   "order:confirm", "confirm"), <<Call("confirm", "", 0, pid)>>, store)
  ELSE Out(Reply("I couldn't confirm that payment. If it succeeded, you'll see the order in your history shortly.",
                 "", "confirm"), <<Call("confirm", "", 0, pid)>>, store)

\* f"{nm} (you asked {w}, only {h} in cart)"
TooManyBit(disp, want_qty, have_qty) ==
  disp \o " (you asked " \o IntToStr(want_qty) \o ", only " \o IntToStr(have_qty) \o " in cart)"

RemoveCall(item_id, want_qty) == Call("remove_from_cart", item_id, Max(1, want_qty), "")

\* one pass of the loop body: current is the cart entry of the item (<<>> when absent) and
\* ok tells whether remove_from_cart succeeds
RemoveStep(acc, item_id, disp, want_qty, current, ok) ==
  IF Len(current) = 0 THEN [acc EXCEPT !.not_in_cart = Append(@, disp)]
  ELSE IF want_qty > current[1].qty
    THEN [acc EXCEPT !.qty_too_high = Append(@, TooManyBit(disp, want_qty, current[1].qty))]
  ELSE IF ok
    THEN [acc EXCEPT !.calls = Append(@, RemoveCall(item_id, want_qty)),
                     !.removed = Append(@, disp \o " x" \o IntToStr(want_qty))]
    ELSE [acc EXCEPT !.calls = Append(@, RemoveCall(item_id, want_qty)),
                     !.qty_too_high = Append(@, TooManyBit(disp, want_qty, current[1].qty))]

\* the loop of the remove branch from item i on; ok[i] tells whether remove_from_cart succeeds
RECURSIVE RemoveLoop(_, _, _, _, _)
RemoveLoop(items, current_items, ok, i, acc) ==
  IF i > Len(items) THEN acc
  ELSE RemoveLoop(items, current_items, ok, i + 1,
                  RemoveStep(acc, items[i].item_id, Strip(items[i].display),
                             QtyOrOne(items[i].qty),
                             IndexGet(current_items, Lower(Strip(items[i].display))), ok[i]))

CartUpdateFailed(requireAuth) ==
  "I couldn't update your cart."
    \o (IF requireAuth THEN " Please make sure you're signed in and try again." ELSE "")

\* the parts of the remove reply
RemoveParts(r) ==
  (IF Len(r.removed) > 0 THEN <<"Removed: " \o Join(r.removed, ", ") \o ".">> ELSE <<>>)
  \o (IF Len(r.not_in_cart) > 0
        THEN <<"Not in cart: " \o Join(r.not_in_cart, ", ") \o ".">> ELSE <<>>)
  \o (IF Len(r.qty_too_high) > 0
        THEN <<"Too many to remove: " \o Join(r.qty_too_high, ", ") \o ".">> ELSE <<>>)

RemoveText(parts) ==
  IF Len(parts) = 0
    THEN "I couldn't remove those items. Please check the names and amounts and try again."
    ELSE Join(parts, " ")

RemoveOut(r, store) ==
  Out(Reply(RemoveText(RemoveParts(r)) \o " Say \"show cart\" to refresh.", "order:remove_multi",
            "remove"),
      r.calls, store)

\* the remove branch
RemoveBranch(items, cart, ok, store, dbUp, requireAuth) ==
  IF cart.kind = "fail"
    THEN Out(Reply(CartUpdateFailed(requireAuth), "", "remove"), <<Call("get_cart", "", 0, "")>>,
             store)
    ELSE RemoveOut(RemoveLoop(items,
                              normalize_cart_items(IF cart.kind = "dict" THEN cart
                                                   ELSE CartEmptyObject, dbUp),
                              ok, 1,
                              [calls |-> <<Call("get_cart", "", 0, "")>>, removed |-> <<>>,
                               not_in_cart |-> <<>>, qty_too_high |-> <<>>]),
                   store)
(***************************************************************************)
(* The answers after the ordering block: popularity, item detail,          *)
(* category, generic fallback                                              *)
(***************************************************************************)
POPULARITY_LIMIT == 3

\* a or b for two lists
OrElse(a, b) == IF Len(a) > 0 THEN a ELSE b

\* top_items_from_orders(...) or top_items_from_foods(...)
PopularNames(store, coll, cat, dbUp, tie) ==
  OrElse(top_items_from_orders(coll, POPULARITY_LIMIT, cat, dbUp, tie),
         top_items_from_foods(store, POPULARITY_LIMIT, cat, dbUp, tie))

\* a question that names the best candidate alone
AskAboutBest(candidates) ==
  "Did you mean: " \o candidates[1].name \o "? Tell me the exact name for details."

ItemDisambiguate(candidates) ==
  "Did you mean: " \o Join([i \in 1..Len(candidates) |-> candidates[i].name], ", ")
    \o "? Tell me the exact name for details."

\* the best-effort memory.add of the message and the answer: the try block returns the
\* answer whatever the two calls did
AfterMemoryAdd(answer, mem, user_id) == answer

\* the generic fallback of the FastAPI handler
DefaultBranch(m, uid, store, coll, c, tie, outcome) ==
  LET user_msg == Strip(m)
      content == DefaultContent(build_context(store, coll, uid, c.db, tie, c.memory), user_msg)
      answer == AfterMemoryAdd(IF c.forceLLM
                                 THEN guarded_rewrite(store, c.db, user_msg, DefaultDraft,
                                                      c.client, outcome)
                                 ELSE llm_compose(content, c.client, outcome),
                               c.memory, uid)
  IN Resp("reply", 200, answer, "", IF c.forceLLM THEN "llm" ELSE "llm:plain", "default",
          DefaultDraft, Engaged(c.client, outcome))

\* the category branch, falling through to the generic fallback
CategoryBranch(m, uid, store, coll, c, tie, outcome, cat, cat_names) ==
  IF cat # "" /\ cat \in FetchMapKeys /\ Len(cat_names) > 0
    THEN Rewritten(store, c.db, Strip(m), CategoryDraft(cat, cat_names), c.forceLLM, c.client,
                   outcome, "category", "category")
    ELSE DefaultBranch(m, uid, store, coll, c, tie, outcome)

\* the item-detail branch, falling through to the category branch
ItemDetailBranch(m, uid, store, coll, c, tie, outcome, candidates) ==
  IF Len(candidates) > 0
    THEN IF m \in BelowDisambiguation
           THEN Reply(ItemDisambiguate(candidates), "rule:item_disambiguate", "item_disambiguate")
           ELSE Rewritten(store, c.db, Strip(m), format_item_detail(candidates[1]), c.forceLLM,
                          c.client, outcome, "item_detail", "item_detail")
    ELSE CategoryBranch(m, uid, store, coll, c, tie, outcome, CategoryOf[m],
                        names_for(store, CategoryOf[m], CATEGORY_NAMES_LIMIT, c.db))

\* the popularity branch, falling through to the item-detail branch
PopularityBranch(m, uid, store, coll, c, tie, outcome, cat, names) ==
  IF m \in PopularityQueries /\ Len(names) > 0
    THEN Rewritten(store, c.db, Strip(m), PopularityDraft(cat, names), c.forceLLM, c.client,
                   outcome, "popularity", "popularity")
    ELSE ItemDetailBranch(m, uid, store, coll, c, tie, outcome,
                          IF c.db THEN CandidatesOf[m] ELSE <<>>)

\* lines 1620-1691 of the FastAPI handler
MainTail(m, uid, store, coll, c, tie, outcome) ==
  PopularityBranch(m, uid, store, coll, c, tie, outcome, CategoryOf[m],
                   PopularNames(store, coll, CategoryOf[m], c.db, tie))

(***************************************************************************)
(* The Flask chat handler of api/index.py                                  *)
(***************************************************************************)
AssistantUnreachable(popular) ==
  "I'm having trouble reaching the assistant. Popular dishes: "
    \o Join(Take(popular, CATEGORY_REPLY_LIMIT), ", ") \o "."

\* the LLM fallback of the Flask handler: without a client the call raises as well
IndexFallback(store, c, tie, outcome) ==
  LET popular == get_popular_items(store, c.db, tie)
      answer == Strip(LlmText(outcome))
  IN IF ~c.client \/ outcome = "error"
       THEN IF Len(popular) > 0
              THEN Resp("reply", 200, AssistantUnreachable(popular), "", "", "index_llm_down", "",
                        Engaged(c.client, outcome))
              ELSE Resp("http_error", 502, "", "Chat service upstream error", "", "index_llm_down",
                        "", Engaged(c.client, outcome))
       ELSE Resp("reply", 200, answer, "", "", "index_llm", "", outcome)

\* the category quick path of the Flask handler, falling through to the LLM fallback
IndexCategory(store, c, tie, outcome, cat, cat_names) ==
  IF cat # "" /\ cat \in FetchMapKeys /\ Len(cat_names) > 0
    THEN Reply(CategoryDraft(cat, cat_names), "", "category")
    ELSE IndexFallback(store, c, tie, outcome)

\* the popularity quick path of the Flask handler
IndexPopularity(m, store, c, tie, outcome, cat, names) ==
  IF m \in PopularityQueries /\ Len(names) > 0
    THEN Reply(PopularityDraft(cat, names), "", "popularity")
    ELSE IndexCategory(store, c, tie, outcome, cat,
                       names_for(store, cat, CATEGORY_NAMES_LIMIT, c.db))

\* lines 40-103 of the Flask handler
IndexBody(m, store, coll, c, tie, outcome) ==
  IndexPopularity(m, store, c, tie, outcome, CategoryOf[m],
                  PopularNames(store, coll, CategoryOf[m], c.db, tie))

(***************************************************************************)
(* The state machine.  cfg is the deployment (environment variables read   *)
(* at import), foods the orders counter of every food document, orders the *)
(* orders collection; pc, req, env, resp, netCalls and ordersQueries       *)
(* describe the request being served: its inputs, what the adapters        *)
(* answered, the response, the calls sent to the order service and the     *)
(* queries run on the orders collection.  last_order and explained belong  *)
(* to the specification that applies explain_last_order_payment to orders. *)
(***************************************************************************)
VARIABLES cfg, foods, orders, pc, req, env, resp, netCalls, ordersQueries, last_order, explained

vars ==
  <<cfg, foods, orders, pc, req, env, resp, netCalls, ordersQueries, last_order, explained>>

\* the largest amount the model lets an orders counter grow above POPULARITY_START
MaxBump == 1

\* the same bound in the specification of the add branch
MaxAddBump == 2

\* the step leaves every orders counter within the bound
WithinBump(cap) == \A n \in DOMAIN foods' : foods'[n] <= POPULARITY_START + cap

\* the queries the answers after the ordering block run on the orders collection:
\* top_items_from_orders for a popularity question, get_user_recent_orders in build_context
TailOrdersQueries(m, user_id, dbUp, branch) ==
  (IF m \in PopularityQueries /\ dbUp THEN {"top_items_from_orders"} ELSE {})
    \cup (IF branch \in {"default", "index_llm", "index_llm_down"} /\ dbUp
                /\ user_id # "" /\ user_id # "guest"
             THEN {"get_user_recent_orders"} ELSE {})

Config(base, requireAuth, forceLLM, client, db) ==
  [base |-> base, requireAuth |-> requireAuth, forceLLM |-> forceLLM, client |-> client,
   db |-> db, memory |-> "off"]

\* the deployment c with the memory collaborator in state mem
WithMemory(c, mem) == [c EXCEPT !.memory = mem]

\* ORDER_API_BASE set, REQUIRE_AUTH_FOR_ORDER, FORCE_LLM, OPENAI_API_KEY set, MONGO_URI set;
\* USE_MEMORY unset
Configs ==
  {Config(b, r, f, k, d) : b \in BOOLEAN, r \in BOOLEAN, f \in BOOLEAN, k \in BOOLEAN,
                           d \in BOOLEAN}

\* the foods collection after bootstrap_foods_if_empty: every counter at POPULARITY_START
Seeded == [n \in MenuNameSet |-> POPULARITY_START]

Request(handler, auth, message, userId, creds) ==
  [handler |-> handler, auth |-> auth, message |-> message, userId |-> userId, creds |-> creds]

NoRequest == Request("", FALSE, "", "", "none")

\* what the request met: the classification, the cart payload, the order of equal sort
\* keys, and for an add request whether each add_to_cart call succeeded
Env(action, cart, tie) == [action |-> action, cart |-> cart, tie |-> tie, added |-> <<>>]

\* before extract_action ran
Unreached == Action("unreached", <<>>, <<>>, "", "")

NoEnv == Env(Unreached, NoCart, "natural")

Init ==
  /\ cfg \in Configs
  /\ foods = IF cfg.db THEN Seeded ELSE <<>>
  /\ orders = {}
  /\ pc = "idle"
  /\ req = NoRequest
  /\ env = NoEnv
  /\ resp = NoResp
  /\ netCalls = <<>>
  /\ ordersQueries = {}
  /\ last_order = NoOrder
  /\ explained = ""

\* the handler returns: the request, what it saw and its response are recorded
Finish(rq, ev, out) ==
  /\ pc' = "done"
  /\ req' = rq
  /\ env' = ev
  /\ resp' = out.resp
  /\ netCalls' = out.calls
  /\ ordersQueries' = out.queries
  /\ foods' = out.store
  /\ UNCHANGED <<cfg, orders, last_order, explained>>

\* the language-model outcomes a response depends on: one when no call is made
OutcomesFor(r) == IF r.llm \in {"none", "noclient"} THEN {"error"} ELSE LlmOutcomes

TiesFor(dbUp) == IF dbUp THEN TieBreaks ELSE {"natural"}

\* the ordering block of the FastAPI handler once the credentials are accepted
OrderingBranch(rq, action) ==
  LET t == action.type
      quiet == Env(action, NoCart, "natural")
  IN IF t = "prompt_for_items"
       THEN Finish(rq, quiet, Out(Reply(PromptItemsReply, "order:prompt_items", "prompt_items"),
                                  <<>>, foods))
     ELSE IF t = "add_multiple"
       THEN \E ok \in [1..Len(action.items) -> BOOLEAN] :
              Finish(rq, [quiet EXCEPT !.added = ok], AddBranch(action.items, ok, foods, cfg.db))
     ELSE IF t = "disambiguate"
       THEN Finish(rq, quiet, Out(Reply(DisambiguateReply, "order:item_disambiguate",
                                        "disambiguate"), <<>>, foods))
     ELSE IF t = "show_cart"
       THEN \E cart \in CartPayloads :
              Finish(rq, Env(action, cart, "natural"),
                     ShowCartBranch(cart, foods, cfg.db, cfg.requireAuth))
     ELSE IF t = "checkout"
       THEN \E cart \in CartPayloads :
              \E outcome \in IF CheckoutCartTest(cart) = "nonempty" THEN CheckoutOutcomes
                             ELSE {"fail"} :
                Finish(rq, Env(action, cart, "natural"),
                       CheckoutBranch(cart, action.payment_method, outcome, foods))
     ELSE IF t = "confirm_order"
       THEN \E ok \in IF action.payment_intent_id = "" THEN {FALSE} ELSE BOOLEAN :
              Finish(rq, quiet, ConfirmBranch(action.payment_intent_id, ok, foods))
     ELSE IF t = "prompt_for_remove"
       THEN Finish(rq, quiet, Out(Reply(PromptRemoveReply, "order:prompt_remove",
                                        "prompt_remove"), <<>>, foods))
     ELSE \E cart \in CartPayloads : \E ok \in [1..Len(action.items) -> BOOLEAN] :
            Finish(rq, Env(action, cart, "natural"),
                   RemoveBranch(action.items, cart, ok, foods, cfg.db, cfg.requireAuth))

\* the user ids a response depends on: one when the branch does not read the user id
UsersFor(r) == IF r.branch = "default" \/ r.branch = "index_llm" \/ r.branch = "index_llm_down"
                 THEN UserIds ELSE {"u1"}

\* the chat handler of main.py from the safe_eq check to the response, on a message of msgs
ServeMain(msgs) ==
     \E auth \in BOOLEAN :
       IF ~auth
         THEN Finish(Request("main", auth, "", "", "none"), NoEnv,
                     Out(HttpError(401, "Unauthorized"), <<>>, foods))
       ELSE \E m \in msgs :
         LET rq == Request("main", auth, m, "u1", "none")
             action == ActionOf[cfg.db][m]
         IN IF Strip(m) = ""
              THEN Finish([rq EXCEPT !.userId = ""], NoEnv,
                          Out(HttpError(400, "message is required"), <<>>, foods))
            ELSE IF m \in PaymentStatusQueries
              THEN \E uid \in UserIds :
                     Finish([rq EXCEPT !.userId = uid], NoEnv,
                            Querying(Out(PaymentBranch(orders, uid, cfg.db), <<>>, foods),
                                     PaymentOrdersQueries(uid, cfg.db)))
            ELSE IF m \in StripeQueries
              THEN Finish(rq, NoEnv, Out(StripeBranch(m), <<>>, foods))
            ELSE IF m \in PreviousOrdersQueries
              THEN \E uid \in UserIds :
                     Finish([rq EXCEPT !.userId = uid], NoEnv,
                            Querying(Out(PreviousOrdersBranch(orders, uid, cfg.db), <<>>, foods),
                                     RecentOrdersQueries(uid, cfg.db)))
            ELSE IF action.type # "none" /\ cfg.base
              THEN \E creds \in Credentials :
                     IF AuthMissing(cfg.requireAuth, JwtToken(creds), FwdCookie(creds))
                       THEN Finish([rq EXCEPT !.creds = creds], Env(action, NoCart, "natural"),
                                   Out(Reply(AuthMissingReply, "order:auth_missing", "auth_missing"),
                                       <<>>, foods))
                       ELSE OrderingBranch([rq EXCEPT !.creds = creds], action)
            ELSE \E tie \in TiesFor(cfg.db) :
                   LET probe == MainTail(m, "u1", foods, orders, cfg, tie, "error")
                   IN \E uid \in UsersFor(probe) : \E outcome \in OutcomesFor(probe) :
                        Finish([rq EXCEPT !.userId = uid], Env(action, NoCart, tie),
                               Querying(Out(MainTail(m, uid, foods, orders, cfg, tie, outcome),
                                            <<>>, foods),
                                        TailOrdersQueries(m, uid, cfg.db, probe.branch)))

\* POST /chat of main.py: one request served
ChatMain == pc = "idle" /\ ServeMain(Messages) /\ WithinBump(MaxBump)

\* POST /chat of main.py: one add request served
ChatAdd == pc = "idle" /\ ServeMain(AddMessages) /\ WithinBump(MaxAddBump)

\* POST /chat of main.py: one remove request served
ChatRemove == pc = "idle" /\ ServeMain(RemoveMessages)

\* POST /chat of main.py: one question about the user's own orders served
ChatOrders == pc = "idle" /\ ServeMain(OrdersMessages)

\* POST /chat of api/index.py: one request served
ChatIndex ==
  /\ pc = "idle"
  /\ \E auth \in BOOLEAN :
       IF ~auth
         THEN Finish(Request("index", auth, "", "", "none"), NoEnv,
                     Out(HttpError(401, "Unauthorized"), <<>>, foods))
       ELSE \E m \in IndexMessages :
         IF Strip(m) = ""
           THEN Finish(Request("index", auth, m, "", "none"), NoEnv,
                       Out(HttpError(400, "message is required"), <<>>, foods))
           ELSE \E tie \in TiesFor(cfg.db) :
                  LET probe == IndexBody(m, foods, orders, cfg, tie, "error")
                  IN \E uid \in UsersFor(probe) : \E outcome \in OutcomesFor(probe) :
                       Finish(Request("index", auth, m, uid, "none"), Env(Unreached, NoCart, tie),
                              Querying(Out(IndexBody(m, foods, orders, cfg, tie, outcome), <<>>,
                                           foods),
                                       TailOrdersQueries(m, uid, cfg.db, probe.branch)))

\* the response leaves the service; nothing of the request stays behind
Respond ==
  /\ pc = "done"
  /\ pc' = "idle"
  /\ req' = NoRequest
  /\ env' = NoEnv
  /\ resp' = NoResp
  /\ netCalls' = <<>>
  /\ ordersQueries' = {}
  /\ UNCHANGED <<cfg, foods, orders, last_order, explained>>

\* a restart of the service: bootstrap_foods_if_empty upserts every seed document with $set
Bootstrap ==
  /\ pc = "idle"
  /\ cfg.db
  /\ foods' = [n \in DOMAIN foods \cup MenuNameSet |-> IF n \in MenuNameSet THEN POPULARITY_START
                                                       ELSE foods[n]]
  /\ UNCHANGED <<cfg, orders, pc, req, env, resp, netCalls, ordersQueries, last_order, explained>>

\* the order service records the next order of the signed-in user in the orders collection
OrderPlaced ==
  /\ pc = "idle"
  /\ cfg.db
  /\ \E o \in OrderDocs : o.oid = Cardinality(orders) + 1 /\ orders' = orders \cup {o}
  /\ UNCHANGED <<cfg, foods, pc, req, env, resp, netCalls, ordersQueries, last_order, explained>>

Next == ChatMain \/ ChatIndex \/ Respond \/ Bootstrap \/ OrderPlaced

Spec == Init /\ [][Next]_vars

(***************************************************************************)
(* The memory collaborator: deployments with USE_MEMORY set and no order   *)
(* service, where every cart message reaches the answers after the         *)
(* ordering block                                                          *)
(***************************************************************************)
InitMemory ==
  /\ cfg \in {WithMemory(c, mem) : c \in {d \in Configs : ~d.base /\ ~d.requireAuth},
                                   mem \in MemoryStates}
  /\ foods = IF cfg.db THEN Seeded ELSE <<>>
  /\ orders = {}
  /\ pc = "idle"
  /\ req = NoRequest
  /\ env = NoEnv
  /\ resp = NoResp
  /\ netCalls = <<>>
  /\ ordersQueries = {}
  /\ last_order = NoOrder
  /\ explained = ""

NextMemory == ChatMain \/ ChatIndex \/ Respond

SpecMemory == InitMemory /\ [][NextMemory]_vars

(***************************************************************************)
(* The add branch: add requests against a configured order service         *)
(***************************************************************************)
InitAdd == Init /\ cfg.base

NextAdd == ChatAdd \/ Respond

SpecAdd == InitAdd /\ [][NextAdd]_vars

(***************************************************************************)
(* The remove branch: remove requests against a configured order service   *)
(***************************************************************************)
InitRemove == Init /\ cfg.base

NextRemove == ChatRemove \/ Respond

SpecRemove == InitRemove /\ [][NextRemove]_vars

(***************************************************************************)
(* Questions about the user's orders, asked of a store that also holds     *)
(* the orders of another user                                              *)
(***************************************************************************)
InitOwners ==
  /\ cfg \in {c \in Configs : ~c.base /\ ~c.requireAuth /\ ~c.forceLLM /\ ~c.client}
  /\ foods = IF cfg.db THEN Seeded ELSE <<>>
  /\ orders \in SUBSET (OrderDocs \cup ForeignOrderDocs)
  /\ pc = "idle"
  /\ req = NoRequest
  /\ env = NoEnv
  /\ resp = NoResp
  /\ netCalls = <<>>
  /\ ordersQueries = {}
  /\ last_order = NoOrder
  /\ explained = ""

NextOwners == ChatOrders \/ Respond

SpecOwners == InitOwners /\ [][NextOwners]_vars

(***************************************************************************)
(* explain_last_order_payment applied to order records                     *)
(***************************************************************************)
ExplainOrders ==
  { Order(7, "u1", <<2026, 4, 2, 12, 0>>, amount, status, paid, infoStatus,
          [NoStripe EXCEPT !.status = stripeStatus, !.errorCode = code, !.errorMessage = msg],
          <<>>) :
      amount \in {<<>>, <<24>>},
      status \in {"", "Food Processing", " paid ", "COMPLETED", "Fulfilled"},
      paid \in BOOLEAN,
      infoStatus \in {"", "succeeded"},
      stripeStatus \in {"", "succeeded", " Succeeded", "requires_payment_method"},
      code \in {"", "card_declined"},
      msg \in {"", "Your card was declined."} }

InitExplain ==
  /\ cfg = Config(FALSE, FALSE, FALSE, FALSE, FALSE)
  /\ foods = <<>>
  /\ orders = {}
  /\ pc = "explain"
  /\ req = NoRequest
  /\ env = NoEnv
  /\ resp = NoResp
  /\ netCalls = <<>>
  /\ ordersQueries = {}
  /\ last_order \in ExplainOrders
  /\ explained = ""

Explain ==
  /\ pc = "explain"
  /\ pc' = "explained"
  /\ explained' = explain_last_order_payment(last_order)
  /\ UNCHANGED <<cfg, foods, orders, req, env, resp, netCalls, ordersQueries, last_order>>

SpecExplain == InitExplain /\ [][Explain]_vars

(***************************************************************************)
(* OrderClient: an operation tries its candidate paths in order            *)
(***************************************************************************)
\* what the order service does with one request: a status with a body, or the
\* transport raises
Answered(status, text) == [raises |-> FALSE, status |-> status, text |-> text]

TransportError(e) == [raises |-> TRUE, status |-> 0, text |-> e]

Answers ==
  { Answered(200, "{}"), Answered(404, "Not Found"), Answered(500, ""),
    TransportError("Read timed out") }

\* str(candidates) of a list of paths
ListRepr(candidates) ==
  "[" \o Join([i \in 1..Len(candidates) |-> "'" \o candidates[i] \o "'"], ", ") \o "]"

\* the text kept for a failed attempt
AttemptError(p, a) ==
  IF a.raises THEN p \o " -> " \o a.text
  ELSE p \o " -> " \o ToString(a.status) \o " " \o a.text

Tried(raised, data, error, attempted) ==
  [raised |-> raised, data |-> data, error |-> error, attempted |-> attempted]

RECURSIVE TryFrom(_, _, _, _, _)
TryFrom(verb, candidates, service, i, last_err) ==
  IF i > Len(candidates)
    THEN Tried(TRUE, "", verb \o " failed for " \o ListRepr(candidates) \o ": " \o last_err,
               candidates)
    ELSE IF ~service[candidates[i]].raises /\ service[candidates[i]].status \in 200..299
           THEN Tried(FALSE, service[candidates[i]].text, "", Take(candidates, i))
           ELSE TryFrom(verb, candidates, service, i + 1,
                        AttemptError(candidates[i], service[candidates[i]]))

_post_try(candidates, service) == TryFrom("POST", candidates, service, 1, "None")

_get_try(candidates, service) == TryFrom("GET", candidates, service, 1, "None")

\* the candidate paths of the operations of OrderClient
OperationCandidates ==
  [ add_to_cart |-> <<"/cart/add", "/cart/items", "/cart">>,
    remove_from_cart |-> <<"/cart/remove", "/cart/items/remove">>,
    checkout |-> <<"/order/place", "/order/checkout-session", "/order/checkout", "/order">>,
    confirm |-> <<"/order/confirm", "/order/complete", "/order/finalize">>,
    get_cart |-> <<"/cart/get", "/cart/items", "/cart">> ]

Operations == DOMAIN OperationCandidates

\* an operation called against an order service that treats each path in its own way
OperationCall(op, service) == [op |-> op, service |-> service]

InitTry ==
  /\ cfg = Config(TRUE, FALSE, FALSE, FALSE, FALSE)
  /\ foods = <<>>
  /\ orders = {}
  /\ pc = "try"
  /\ req = NoRequest
  /\ \E op \in Operations :
       \E service \in [SeqToSet(OperationCandidates[op]) -> Answers] :
         env = OperationCall(op, service)
  /\ resp = NoResp
  /\ netCalls = <<>>
  /\ ordersQueries = {}
  /\ last_order = NoOrder
  /\ explained = ""

\* the operation runs: the paths requested and what it returned or raised
Try ==
  /\ pc = "try"
  /\ pc' = "tried"
  /\ resp' = IF env.op = "get_cart"
               THEN _get_try(OperationCandidates[env.op], env.service)
               ELSE _post_try(OperationCandidates[env.op], env.service)
  /\ netCalls' = resp'.attempted
  /\ UNCHANGED <<cfg, foods, orders, req, env, ordersQueries, last_order, explained>>

SpecTry == InitTry /\ [][Try]_vars

(***************************************************************************)
(* explain_stripe_error applied to pasted error texts                      *)
(***************************************************************************)
\* the words of a text, the empty ones left out
Words(parts) == Join(SelectSeq(parts, LAMBDA w : w # ""), " ")

\* texts naming an error type, an error code, a decline code and an intent status, each
\* possibly absent, as plain words or as the fields of a pasted JSON error
StripeTexts ==
  { Words(<<ty, code, decline, st>>) :
      ty \in {"", "card_error", "type: \"api_error\""},
      code \in {"", "Card_Declined", "expired_card", "\"code\": \"card-declined\""},
      decline \in {"", "insufficient_funds", "incorrect_cvc", "decline_code: do-not-honor"},
      st \in {"", "requires_action"} }

InitStripe ==
  /\ cfg = Config(FALSE, FALSE, FALSE, FALSE, FALSE)
  /\ foods = <<>>
  /\ orders = {}
  /\ pc = "decode"
  /\ \E text \in StripeTexts : req = Request("main", FALSE, text, "", "none")
  /\ env = NoEnv
  /\ resp = NoResp
  /\ netCalls = <<>>
  /\ ordersQueries = {}
  /\ last_order = NoOrder
  /\ explained = ""

Decode ==
  /\ pc = "decode"
  /\ pc' = "decoded"
  /\ explained' = explain_stripe_error(req.message)
  /\ UNCHANGED <<cfg, foods, orders, req, env, resp, netCalls, ordersQueries, last_order>>

SpecStripe == InitStripe /\ [][Decode]_vars

(***************************************************************************)
(* Add requests served concurrently.  The handler is a synchronous         *)
(* function, run by the server in a pool of threads; each $inc is one      *)
(* atomic update of a document in the store.  A step is one pass of the    *)
(* loop of the add branch for one request: add_to_cart, then the $inc.     *)
(***************************************************************************)
\* the number of add requests in flight
MaxConcurrent == 3

\* the add requests whose items resolve on the menu
AddRequests == {m \in AddMessages : ActionOf[TRUE][m].type = "add_multiple"}

\* a request in flight: its resolved items and the item its loop is at
InFlight(items, next) == [items |-> items, next |-> next]

InitConcurrent ==
  /\ cfg = Config(TRUE, FALSE, FALSE, FALSE, TRUE)
  /\ foods = Seeded
  /\ orders = {}
  /\ pc = "serving"
  /\ req = NoRequest
  /\ \E ms \in [1..MaxConcurrent -> AddRequests] :
       env = [r \in 1..MaxConcurrent |-> InFlight(ActionOf[TRUE][ms[r]].items, 1)]
  /\ resp = NoResp
  /\ netCalls = <<>>
  /\ ordersQueries = {}
  /\ last_order = NoOrder
  /\ explained = ""

\* request r adds its next item to the cart and bumps the item's counter
AddOne(r) ==
  /\ pc = "serving"
  /\ env[r].next <= Len(env[r].items)
  /\ foods' = bump_food_orders(foods, env[r].items[env[r].next].display,
                               QtyOrOne(env[r].items[env[r].next].qty), cfg.db)
  /\ env' = [env EXCEPT ![r].next = @ + 1]
  /\ UNCHANGED <<cfg, orders, pc, req, resp, netCalls, ordersQueries, last_order, explained>>

NextConcurrent == \E r \in 1..MaxConcurrent : AddOne(r)

SpecConcurrent == InitConcurrent /\ [][NextConcurrent]_vars

(***************************************************************************)
(* Properties.  A request has been served when pc = "done": req, env, resp *)
(* and netCalls then describe it.                                          *)
(***************************************************************************)
Served == pc = "done" /\ resp.kind # "none"

ServedByMain == Served /\ req.handler = "main" /\ req.auth /\ Strip(req.message) # ""

\* the message names a Stripe error code or decline code
NamesErrorCode(m) ==
  \E k \in KeySet(StripeCodes) \cup KeySet(StripeDeclineCodes) : Contains(Lower(m), k)

\* the message holds a popularity keyword
NamesPopularity(m) ==
  \E i \in 1..Len(POPULAR_KEYWORDS) : Contains(Lower(m), POPULAR_KEYWORDS[i])

PaymentBranches == {"stripe", "payment_status"}

\* C1: a served message that holds an error-code or decline-code key together with a
\* popularity keyword is answered by a payment branch (raw error decoding or last-payment
\* status), never by the popularity branch, whichever chat handler served it.
C1_PaymentBeatsPopularity ==
  (Served /\ resp.kind = "reply" /\ NamesErrorCode(req.message) /\ NamesPopularity(req.message))
    => (resp.branch \in PaymentBranches /\ resp.branch # "popularity")

\* C2: "clear my cart" is classified by extract_action as a clear-cart action and never as
\* show-cart.
C2_ClearCartBeforeShowCart ==
  (ServedByMain /\ req.message = "clear my cart" /\ env.action.type # "unreached")
    => (env.action.type = "clear_cart" /\ env.action.type # "show_cart")

\* the branches that hand a deterministic draft to the language model
DraftBranches == {"popularity", "item_detail", "category", "default"}

\* the reply went through guarded_rewrite
RewriteEngaged ==
  ServedByMain /\ cfg.forceLLM /\ resp.branch \in DraftBranches /\ resp.draft # ""
    /\ resp.llm # "none"

\* C3: when a branch with a deterministic draft engaged the language model and the call
\* failed, returned empty text or had no client, the reply is exactly the draft.
C3_DraftOnModelFailure ==
  (RewriteEngaged /\ resp.llm \in {"noclient", "error", "empty"}) => resp.reply = resp.draft

\* C4: when the language model was engaged the reply holds no name outside the menu; an
\* output that names an off-menu dish is dropped and the draft is returned.
C4_MenuGrounding ==
  RewriteEngaged
    => /\ ~Contains(resp.reply, OffMenuName)
       /\ (resp.llm = "offmenu" => resp.reply = resp.draft)

\* C5: every authenticated request with a non-empty message ends in a reply text: no
\* exception leaves the chat handler, the checkout branch included.
C5_NoEscapingException ==
  ServedByMain => (resp.kind = "reply" /\ resp.status = 200)

CartActions == {"show_cart", "add_multiple", "remove_multiple", "checkout", "confirm_order"}

\* C6: when authentication is required for ordering and the request carries neither a
\* bearer token nor a forwarded cookie, every cart/order action is refused with the log-in
\* reply and no call reaches the order service.
C6_RefusedWithoutCredentials ==
  (ServedByMain /\ cfg.requireAuth /\ JwtToken(req.creds) = "" /\ FwdCookie(req.creds) = ""
     /\ env.action.type \in CartActions)
    => (resp.reply = AuthMissingReply /\ netCalls = <<>>)

\* the quantities the fetched cart body holds for an item id, as the order service sent them
RawCartQty(cart, id) ==
  {cart.cartData[i][2] : i \in {j \in 1..Len(cart.cartData) : cart.cartData[j][1] = id}}
    \cup {cart.items[i].qty : i \in {j \in 1..Len(cart.items) : cart.items[j].id = id}}

RemoveCallsFor(id) ==
  {i \in 1..Len(netCalls) : netCalls[i].op = "remove_from_cart" /\ netCalls[i].item = id}

\* C7: in the remove branch the cart is fetched first, and a requested item whose quantity
\* exceeds its quantity in the fetched cart gets no remove call and is reported under
\* "Too many to remove".
C7_NoRemoveBeyondCart ==
  (ServedByMain /\ resp.branch = "remove" /\ env.cart.kind = "dict")
    => /\ netCalls[1].op = "get_cart"
       /\ \A i \in 1..Len(env.action.items) :
            \A have \in RawCartQty(env.cart, env.action.items[i].item_id) :
              env.action.items[i].qty > have
                => /\ RemoveCallsFor(env.action.items[i].item_id) = {}
                   /\ Contains(resp.reply, "Too many to remove: ")

ZeroOrNegativeQtyMessages == {"add Greek salad x 0", "add Greek salad x -3"}

\* C8: every item parsed from an add message has quantity at least 1, and "item x 0" and
\* "item x -3" yield the item with quantity 1: the item is not dropped.
C8_QuantityFloor ==
  (ServedByMain /\ cfg.db /\ env.action.type # "unreached"
     /\ req.message \in ZeroOrNegativeQtyMessages)
    => /\ env.action.type = "add_multiple"
       /\ \A i \in 1..Len(env.action.items) : env.action.items[i].qty >= 1
       /\ \E i \in 1..Len(env.action.items) :
            env.action.items[i].display = "Greek salad" /\ env.action.items[i].qty = 1

\* the fulfilment statuses that tell the order was completed
CompletionStatuses == {"PAID", "COMPLETED", "FULFILLED"}

\* one success signal holds on the order record: the paid flag, a completion status or
\* the provider status "succeeded"
HasSuccessSignal(o) ==
  \/ o.payment = TRUE
  \/ Upper(Strip(o.status)) \in CompletionStatuses
  \/ Lower(Strip(o.stripe.status)) = "succeeded"

\* the reply surfaces a reason for a failure
SurfacesFailure(text, o) ==
  \/ Contains(text, "did not succeed")
  \/ Contains(Lower(text), "declined")
  \/ (o.stripe.errorCode # "" /\ Contains(text, o.stripe.errorCode))
  \/ (o.stripe.errorMessage # "" /\ Contains(text, o.stripe.errorMessage))

\* C9: explain_last_order_payment reports success whenever one success signal holds on the
\* order, whatever error code or error message the record also carries, and surfaces no
\* failure reason.
C9_SuccessOverridesErrors ==
  (pc = "explained" /\ HasSuccessSignal(last_order))
    => /\ StartsWith(explained, "Your last payment was successful")
       /\ ~SurfacesFailure(explained, last_order)

\* C9 witness: an order with the paid flag and a stale error code has been explained
C9_Witness ==
  /\ pc = "explained"
  /\ last_order.payment
  /\ last_order.stripe.errorCode = "card_declined"
  /\ last_order.stripe.errorMessage # ""
  /\ StartsWith(explained, "Your last payment was successful")

\* the newest order of the signed-in user, by date
LatestOrders(uid) ==
  {o \in orders : o.userId = uid /\ \A p \in orders : p.userId = uid => ~NewerThan(p, o)}

AsksWhyPaymentFailed ==
  ServedByMain /\ cfg.db /\ req.message = "why did my payment fail" /\ req.userId = "u1"

\* C10: "why did my payment fail" from a signed-in user whose latest order has
\* paymentInfo.stripe.status "succeeded" is answered with the success statement and no
\* failure explanation.
C10_SuccessPremiseCorrected ==
  AsksWhyPaymentFailed
    => \A o \in LatestOrders("u1") :
         o.stripe.status = "succeeded"
           => /\ StartsWith(resp.reply, "Your last payment was successful")
              /\ ~SurfacesFailure(resp.reply, o)

\* C10 as the specification words it: the status is read at paymentInfo.status
C10_AsStated ==
  AsksWhyPaymentFailed
    => \A o \in LatestOrders("u1") :
         o.paymentInfoStatus = "succeeded"
           => /\ StartsWith(resp.reply, "Your last payment was successful")
              /\ ~SurfacesFailure(resp.reply, o)

\* C10 witness: the question was answered while the latest order carried the provider
\* status "succeeded" next to a stale error code
C10_Witness ==
  /\ AsksWhyPaymentFailed
  /\ \E o \in LatestOrders("u1") :
       o.stripe.status = "succeeded" /\ o.stripe.errorCode # "" /\ ~o.payment
  /\ StartsWith(resp.reply, "Your last payment was successful")

(***************************************************************************)
(* Item detail and disambiguation                                          *)
(***************************************************************************)
\* the documents of the search pool (the names holding the query, or the whole menu when
\* none does) whose similarity reaches the floor, before the cut to ITEM_CANDIDATES
PassingFloorOf ==
  [m \in Messages |->
     {d \in SeqToSet(FuzzyPool(ContainsDocs(Lower(Strip(m)), ITEM_CANDIDATES))) :
        RatioAtLeast(Score(Strip(m), d), SIMILARITY_FLOOR)}]

\* at least two candidates pass the floor and the best similarity stays below the
\* disambiguation threshold
AmbiguousQueries ==
  {m \in Messages : /\ Cardinality(PassingFloorOf[m]) >= 2
                    /\ \A d \in PassingFloorOf[m] :
                         ~RatioAtLeast(Score(Strip(m), d), DISAMBIGUATE_BELOW)}

\* the request went past the ordering and popularity branches
AtOrBelowItemDetail == {"item_disambiguate", "item_detail", "category", "default"}

ReachedItemDetail ==
  ServedByMain /\ cfg.db /\ resp.kind = "reply" /\ resp.branch \in AtOrBelowItemDetail

\* the menu names a reply text holds
ListedNames(text) == {n \in MenuNameSet : Contains(text, n)}

NamesOf(docs) == {d.name : d \in docs}

\* the text asks to pick a name and describes no item
AsksToPick(text) ==
  /\ StartsWith(text, "Did you mean: ")
  /\ \A i \in 1..Len(STATIC_FOODS) : ~Contains(text, Strip(STATIC_FOODS[i].description))

\* the listed names are the best-ranked of the passing candidates, three at most
ListsBestOf(m, listed) ==
  /\ listed \subseteq NamesOf(PassingFloorOf[m])
  /\ Cardinality(listed) = IF Cardinality(PassingFloorOf[m]) < ITEM_CANDIDATES
                             THEN Cardinality(PassingFloorOf[m]) ELSE ITEM_CANDIDATES
  /\ \A d \in PassingFloorOf[m] : \A e \in PassingFloorOf[m] :
       (d.name \in listed /\ e.name \notin listed)
         => ~RatioLess(Score(Strip(m), d), Score(Strip(m), e))

\* C11: in the item-detail branch, a query with at least two candidates passing the 0.55
\* floor and a best similarity below 0.88 is answered by a disambiguation question that
\* lists the best-ranked of those candidates, ITEM_CANDIDATES (three) at most, and
\* describes no single item.
C11_DisambiguatesTopCandidates ==
  (ReachedItemDetail /\ req.message \in AmbiguousQueries)
    => /\ resp.branch = "item_disambiguate"
       /\ AsksToPick(resp.reply)
       /\ ListsBestOf(req.message, ListedNames(resp.reply))

\* C11 as the specification words it: the question lists exactly the candidates that
\* pass the floor
C11_AsStated ==
  (ReachedItemDetail /\ req.message \in AmbiguousQueries)
    => /\ resp.branch = "item_disambiguate"
       /\ AsksToPick(resp.reply)
       /\ ListedNames(resp.reply) = NamesOf(PassingFloorOf[req.message])

\* C11 witness: a disambiguation question was returned for a query that more than
\* ITEM_CANDIDATES menu items match above the floor
C11_Witness ==
  /\ ReachedItemDetail /\ req.message \in AmbiguousQueries
  /\ Cardinality(PassingFloorOf[req.message]) > ITEM_CANDIDATES
  /\ resp.branch = "item_disambiguate"
  /\ Cardinality(ListedNames(resp.reply)) = ITEM_CANDIDATES

(***************************************************************************)
(* Past orders                                                             *)
(***************************************************************************)
\* the request carries no user identifier, or the guest identifier
Anonymous == req.userId = "" \/ req.userId = "guest"

AsksPastOrders == ServedByMain /\ is_previous_orders_query(Strip(req.message))

\* C12: a past-orders message sent with no user identifier, or with the identifier
\* "guest", is answered with the instruction to log in, and no query is run on the orders
\* collection while the request is served.
C12_LoginBeforeOrdersQuery ==
  (AsksPastOrders /\ Anonymous)
    => /\ resp.kind = "reply"
       /\ Contains(Lower(resp.reply), "log in")
       /\ ordersQueries = {}

\* C12 witness: a guest asked for the recent orders while the database was reachable and
\* held orders, and was told to log in
C12_Witness ==
  /\ AsksPastOrders /\ req.userId = "guest"
  /\ cfg.db /\ orders # {}
  /\ resp.reply = OrdersLoginRequired
  /\ ordersQueries = {}

(***************************************************************************)
(* The add branch                                                          *)
(***************************************************************************)
\* the quantities of the add_to_cart calls of items i.. that succeeded for the item named n
RECURSIVE AddedQty(_, _, _, _)
AddedQty(items, ok, n, i) ==
  IF i > Len(items) THEN 0
  ELSE (IF items[i].display = n /\ ok[i] THEN items[i].qty ELSE 0) + AddedQty(items, ok, n, i + 1)

\* a step that serves a request in the add loop
AddStep == pc = "idle" /\ pc' = "done" /\ resp'.branch = "add"

\* what the claim's example resolves to
ExampleAdd == "add Rice Zucchini x 2, Clover Salad"

ExampleItems ==
  << [item_id |-> "f24", display |-> "Rice Zucchini", qty |-> 2],
     [item_id |-> "f03", display |-> "Clover Salad", qty |-> 1] >>

MenuCategories == {"sandwich", "rolls", "salad", "desserts", "cake", "pasta", "noodles", "veg"}

\* the names of the stored items of a category, in store order
StoredNamesOf(c) ==
  SelectSeq(MenuNames, LAMBDA n : n \in DOMAIN foods /\ FoodByName(n).category = c)

\* the text lists the category: "Our <category> options include:" (the category or its
\* singular) and the first ten names joined by commas
ListsCategory(text, c) ==
  /\ \/ StartsWith(text, "Our " \o c \o " options include: ")
     \/ StartsWith(text, "Our " \o RStripChars(c, {"s"}) \o " options include: ")
  /\ Contains(text, " options include: " \o Join(Take(StoredNamesOf(c), 10), ", ") \o ".")

\* the request went past the ordering, popularity and item-detail branches
AtOrBelowCategory == {"category", "default"}

\* the message names the category c and no other category
NamesOnly(m, c) ==
  /\ Contains(Lower(m), c)
  /\ \A d \in MenuCategories \ {c} : ~Contains(Lower(m), d)

\* C14: for each fixed menu category, a message naming it that no higher-priority branch
\* takes is answered, when the store holds items of the category, with "Our <category>
\* options include:" and at most the first ten names of the category joined by commas (the
\* text handed to the rewrite when FORCE_LLM is set).
C14_CategoryListing ==
  \A c \in MenuCategories :
    (/\ ServedByMain /\ cfg.db /\ resp.kind = "reply" /\ resp.branch \in AtOrBelowCategory
     /\ NamesOnly(req.message, c)
     /\ Len(StoredNamesOf(c)) > 0)
      => /\ resp.branch = "category"
         /\ ListsCategory(IF cfg.forceLLM THEN resp.draft ELSE resp.reply, c)

(***************************************************************************)
(* Rejected requests                                                       *)
(***************************************************************************)
\* a step that serves one request of either handler
ServeStep == pc = "idle" /\ pc' = "done"

\* the response is an HTTP error with the given status and carries no reply
RejectedWith(r, status) == r.kind = "http_error" /\ r.status = status /\ r.reply = ""

\* nothing was classified, queried, sent to the order service or asked of the model
NothingProcessed ==
  /\ env' = NoEnv
  /\ netCalls' = <<>>
  /\ ordersQueries' = {}
  /\ resp'.llm = "none" /\ resp'.draft = ""
  /\ foods' = foods /\ orders' = orders

\* C15: a chat call whose shared-secret header does not match is rejected with 401 before
\* any classification, store query, order-service call or model call; a message that is
\* empty after trimming is rejected with 400 and produces no reply.  Both handlers.
C15_RejectedBeforeProcessing ==
  [][ServeStep =>
       /\ ~req'.auth => (RejectedWith(resp', 401) /\ NothingProcessed)
       /\ (req'.auth /\ Strip(req'.message) = "")
            => (RejectedWith(resp', 400) /\ NothingProcessed)]_vars

\* C15 witness: a message of blanks was answered 400 "message is required"
C15_Witness ==
  /\ Served /\ req.auth /\ req.message = "   "
  /\ resp.status = 400 /\ resp.detail = "message is required" /\ resp.reply = ""
  /\ netCalls = <<>> /\ ordersQueries = {}

(***************************************************************************)
(* The memory collaborator                                                 *)
(***************************************************************************)
\* the request reached the generic fallback of main.py, the one place of the handler that
\* searches and appends to the memory
ReachedFallback == ServedByMain /\ resp.branch = "default"

\* the outcome of the model call of the served request
OutcomeSeen == IF resp.llm \in LlmOutcomes THEN resp.llm ELSE "error"

\* the response of the generic fallback to the same request with the memory in state mem
FallbackWith(mem) ==
  DefaultBranch(req.message, req.userId, foods, orders, WithMemory(cfg, mem), env.tie,
                OutcomeSeen)

\* the response of the Flask handler to the same request with the memory in state mem
IndexWith(mem) ==
  IndexBody(req.message, foods, orders, WithMemory(cfg, mem), env.tie, OutcomeSeen)

\* C16: a failure of the memory collaborator is swallowed: when memory.search raises the
\* response is the one given with the memory disabled, when memory.add raises it is the
\* one given when both calls succeed, and no exception leaves the handler.
C16_MemoryFailureSwallowed ==
  /\ (ReachedFallback /\ cfg.memory = "search_raises")
       => (resp = FallbackWith("off") /\ resp.kind = "reply")
  /\ (ReachedFallback /\ cfg.memory = "add_raises")
       => (resp = FallbackWith("ok") /\ resp.kind = "reply")
  /\ (Served /\ req.handler = "index" /\ req.auth /\ Strip(req.message) # ""
        /\ cfg.memory \in {"search_raises", "add_raises"})
       => (resp = IndexWith("off") /\ resp.kind # "internal_error")

\* C16 witness: the fallback answered a signed-in user with the prompt text while
\* memory.search raised; a working search would have put its note into that text
C16_Witness ==
  /\ ReachedFallback /\ cfg.memory = "search_raises" /\ req.userId = "u1"
  /\ ~cfg.forceLLM /\ resp.llm \in {"noclient", "error", "empty"}
  /\ ~Contains(resp.reply, MemoryNote)
  /\ Contains(FallbackWith("ok").reply, MemoryNote)

(***************************************************************************)
(* Ordering without an order service                                       *)
(***************************************************************************)
\* extract_action recognized a cart or ordering action
ActionRecognized == ServedByMain /\ env.action.type \notin {"none", "unreached"}

\* the answers after the ordering block
TailBranches == {"popularity", "item_detail", "item_disambiguate", "category", "default"}

\* C17: a message recognized as a cart or ordering action while ORDER_API_BASE is not
\* configured is answered with a message saying that ordering is unavailable, and not by
\* the popularity, item-detail, category or generic branch.
C17_DegradedWithoutBase ==
  (ActionRecognized /\ ~cfg.base)
    => /\ resp.kind = "reply"
       /\ Contains(Lower(resp.reply), "unavailable")
       /\ resp.branch \notin TailBranches

(***************************************************************************)
(* Mapping the parsed names to the menu                                    *)
(***************************************************************************)
\* the parsed names of a message that no menu item matches above the floor
UnresolvedOf ==
  [m \in Messages |->
     SelectSeq(parse_items_with_qty(Strip(m)),
               LAMBDA r : Len(FindCandidatesUp(r.name, 1)) = 0)]

\* extract_action took the add or the remove path and parsed at least one item
ItemsOutcomes == {"add_multiple", "remove_multiple", "disambiguate"}

\* C18: when a name parsed from an add or remove request cannot be resolved against the
\* menu store, the action is the could-not-map outcome: it never goes on with the resolved
\* items alone.
C18_AllOrNothingMapping ==
  (ServedByMain /\ cfg.db /\ env.action.type \in ItemsOutcomes
     /\ Len(UnresolvedOf[req.message]) > 0)
    => (env.action.type = "disambiguate" /\ Len(env.action.items) = 0)

(***************************************************************************)
(* Add against remove                                                      *)
(***************************************************************************)
\* extract_action ran on the message
Classified == ServedByMain /\ env.action.type # "unreached"

AddOutcomes == {"add_multiple", "prompt_for_items"}

RemoveOutcomes == {"remove_multiple", "prompt_for_remove"}

\* the cart, checkout and confirm patterns come before add and remove
BeforeAddRemove == {"show_cart", "checkout", "confirm_order"}

\* C19: a message that holds a remove keyword (remove, delete, take out, subtract) is never
\* classified as an add action, and one that says "remove" is classified as a remove action
\* even when it also holds an add-pattern word; the could-not-map outcome, which both paths
\* share, is accepted.
C19_RemoveBeatsAdd ==
  (Classified /\ MatchesRemove(Lower(Strip(req.message))))
    => /\ env.action.type \notin AddOutcomes
       /\ (HasWord(Lower(Strip(req.message)), {"remove"})
             /\ env.action.type \notin BeforeAddRemove)
            => env.action.type \in RemoveOutcomes \cup {"disambiguate"}

(***************************************************************************)
(* Priority between the two payment intents                                *)
(***************************************************************************)
\* the message satisfies both the raw payment-error predicate and the last-payment-status
\* predicate
BothPaymentIntents(m) == is_stripe_query(Strip(m)) /\ is_payment_status_query(Strip(m))

\* C20: a message that satisfies both payment predicates is handled by the raw
\* payment-error decoding branch, not by the last-payment-status lookup.
C20_RawDecodingFirst ==
  (ServedByMain /\ BothPaymentIntents(req.message))
    => (resp.branch = "stripe" /\ resp.branch # "payment_status")

(***************************************************************************)
(* The popularity counters over time                                       *)
(***************************************************************************)
\* C21: no step of the system, a startup seed or a chat request, lowers or resets the
\* orders counter of a menu item.
C21_CountersNeverDecrease ==
  [][\A n \in DOMAIN foods : n \in DOMAIN foods' /\ foods'[n] >= foods[n]]_vars

(***************************************************************************)
(* The intent cascade of the tail                                          *)
(***************************************************************************)
\* the branches below the popularity branch
BelowPopularity == {"item_disambiguate", "item_detail", "category", "default"}

\* C22: a message that satisfies the popularity predicate and reaches the tail of the
\* handler is never answered by the item-detail, category or open-ended branch.
C22_PopularityShortCircuits ==
  (ServedByMain /\ resp.branch \in TailBranches /\ is_popularity_query(Strip(req.message)))
     => resp.branch \notin BelowPopularity

(***************************************************************************)
(* The error of an order-service operation                                 *)
(***************************************************************************)
\* the operation raised after every candidate path failed
AllCandidatesFailed == pc = "tried" /\ resp.raised

\* C23: the error raised when every candidate failed contains the outcome of every
\* attempted candidate.
C23_ErrorNamesEveryAttempt ==
  AllCandidatesFailed
    => \A i \in 1..Len(netCalls) :
         Contains(resp.error, AttemptError(netCalls[i], env.service[netCalls[i]]))

(***************************************************************************)
(* Cart entries without a positive quantity                                *)
(***************************************************************************)
\* the ids the fetched id-to-quantity map holds with no positive quantity
AbsentIds(cart) ==
  {cart.cartData[i][1] : i \in {j \in 1..Len(cart.cartData) : cart.cartData[j][2] <= 0}}

\* C24: an id-to-quantity entry with quantity 0 or less is not listed when the cart is
\* shown, and no removal of it is accepted.
C24_NonPositiveEntriesAbsent ==
  (ServedByMain /\ env.cart.kind = "dict" /\ cfg.db /\ Len(env.cart.items) = 0)
    => \A id \in AbsentIds(env.cart) :
         /\ resp.branch = "show_cart" => ~Contains(resp.reply, FoodNameById(id, cfg.db))
         /\ resp.branch = "remove" => RemoveCallsFor(id) = {}

(***************************************************************************)
(* The precedence of payment-error decoding                                *)
(***************************************************************************)
FoundTypes == StripeFound(Lower(req.message), ScanFields(req.message, 1), "type", StripeTypes)

FoundCodes == StripeFound(Lower(req.message), ScanFields(req.message, 1), "code", StripeCodes)

FoundDeclines ==
  StripeFound(Lower(req.message), ScanFields(req.message, 1), "decline_code",
              StripeDeclineCodes)

FoundStatuses == FoundKeys(StripeIntents, Lower(req.message))

DeclineLine(dc) ==
  "Stripe says **card_declined / " \o dc \o "** - " \o Lookup(StripeDeclineCodes, dc)

CodeLine(c) == "Stripe **" \o c \o "** - " \o Lookup(StripeCodes, c)

TypeLine(ty) == "Stripe **" \o ty \o "** - " \o Lookup(StripeTypes, ty)

StatusLine(st) == "Status **" \o st \o "** - " \o Lookup(StripeIntents, st)

\* the reply opens with the explanation the precedence selects, the decline explanation
\* being selected when declineSelected holds
OpensByPrecedence(declineSelected) ==
  IF declineSelected THEN StartsWith(explained, DeclineLine(FoundDeclines[1]))
  ELSE IF Len(FoundCodes) > 0 THEN StartsWith(explained, CodeLine(FoundCodes[1]))
  ELSE IF Len(FoundTypes) > 0 THEN StartsWith(explained, TypeLine(FoundTypes[1]))
  ELSE IF Len(FoundStatuses) > 0 THEN StartsWith(explained, StatusLine(FoundStatuses[1]))
  ELSE StartsWith(explained, StripeGeneric)

\* a matched intent status is an extra line after the primary explanation
StatusAppended ==
  Len(FoundStatuses) > 0
    => /\ Contains(explained, StatusLine(FoundStatuses[1]))
       /\ (Len(FoundCodes) > 0 \/ Len(FoundTypes) > 0)
            => ~StartsWith(explained, "Status **")

DeclineWithCard ==
  Len(FoundDeclines) > 0
    /\ ("card_declined" \in SeqToSet(FoundCodes) \/ "card_error" \in SeqToSet(FoundTypes))

DeclineWithCode == Len(FoundDeclines) > 0 /\ "card_declined" \in SeqToSet(FoundCodes)

\* C25: the primary explanation is the decline-code explanation when a decline code is
\* found together with the card_declined code or the card_error type, otherwise that of
\* the first matched error code, otherwise that of the first matched error type; a matched
\* intent status is appended and never replaces it; with no match the generic guidance.
C25_DecodingPrecedence ==
  pc = "decoded" => OpensByPrecedence(DeclineWithCard) /\ StatusAppended

\* C25 as the claim words it: the decline explanation only beside the card_declined code
C25_AsStated ==
  pc = "decoded" => OpensByPrecedence(DeclineWithCode) /\ StatusAppended

C25_Witness ==
  /\ pc = "decoded"
  /\ DeclineWithCard /\ ~DeclineWithCode
  /\ Len(FoundStatuses) > 0
  /\ StartsWith(explained, DeclineLine(FoundDeclines[1]))

(***************************************************************************)
(* A failed payment without provider details                               *)
(***************************************************************************)
\* the order record carries nothing from the payment provider: no error code, no error
\* message and no provider status
NoProviderDetails(o) ==
  Strip(o.stripe.errorCode) = "" /\ Strip(o.stripe.errorMessage) = ""
    /\ Strip(o.stripe.status) = ""

\* C26: for a latest order that is not a success and carries no provider error, the
\* explanation is the "try another card or contact your bank" message, whatever the
\* fulfillment status of the order is.
C26_GenericWithoutProviderError ==
  (pc = "explained" /\ ~HasSuccessSignal(last_order) /\ NoProviderDetails(last_order))
    => explained = PaymentNotSucceeded

(***************************************************************************)
(* Concurrent popularity increments                                        *)
(***************************************************************************)
\* the quantity of the item named n among the first k items of a request
RECURSIVE QtyAmong(_, _, _)
QtyAmong(items, k, n) ==
  IF k = 0 THEN 0
  ELSE QtyAmong(items, k - 1, n)
         + (IF Strip(items[k].display) = n THEN QtyOrOne(items[k].qty) ELSE 0)

\* the quantity of the item named n the first k requests in flight have added so far
RECURSIVE AddedSoFar(_, _)
AddedSoFar(k, n) ==
  IF k = 0 THEN 0
  ELSE AddedSoFar(k - 1, n) + QtyAmong(env[k].items, env[k].next - 1, n)

AllAdded == \A r \in DOMAIN env : env[r].next > Len(env[r].items)

\* every counter is its start value plus what the requests have added, in whatever order
\* the requests took their steps
CountersAreSums ==
  pc = "serving" => \A n \in DOMAIN foods : foods[n] = Seeded[n] + AddedSoFar(Len(env), n)

\* C27: concurrent add requests leave each counter at its start value plus the quantities
\* added, whatever the interleaving, and no step lowers a counter.
C27_IncrementsCommute ==
  []CountersAreSums /\ [][\A n \in DOMAIN foods : foods'[n] >= foods[n]]_vars

\* C27 witness: all requests have finished and two of them bumped the same counter
C27_Witness ==
  /\ pc = "serving"
  /\ AllAdded
  /\ \E n \in DOMAIN foods :
       \E r1, r2 \in DOMAIN env :
         /\ r1 # r2
         /\ QtyAmong(env[r1].items, Len(env[r1].items), n) > 0
         /\ QtyAmong(env[r2].items, Len(env[r2].items), n) > 0
         /\ env[r1].items # env[r2].items
         /\ foods[n] > Seeded[n] + 2

(***************************************************************************)
(* The quantities a remove request sends                                   *)
(***************************************************************************)
\* the quantity of item id in the first k remove calls sent
RECURSIVE SentFor(_, _, _)
SentFor(calls, k, id) ==
  IF k = 0 THEN 0
  ELSE SentFor(calls, k - 1, id)
         + (IF calls[k].op = "remove_from_cart" /\ calls[k].item = id THEN calls[k].qty ELSE 0)

\* the quantity the fetched cart holds for item id: 0 when the cart does not hold it
RECURSIVE MapQty(_, _, _)
MapQty(cartData, k, id) ==
  IF k = 0 THEN 0
  ELSE MapQty(cartData, k - 1, id) + (IF cartData[k][1] = id THEN cartData[k][2] ELSE 0)

RECURSIVE ListQty(_, _, _)
ListQty(items, k, id) ==
  IF k = 0 THEN 0
  ELSE ListQty(items, k - 1, id) + (IF items[k].id = id THEN items[k].qty ELSE 0)

FetchedQty(cart, id) ==
  IF Len(cart.items) > 0 THEN ListQty(cart.items, Len(cart.items), id)
  ELSE MapQty(cart.cartData, Len(cart.cartData), id)

RemoveServed == ServedByMain /\ resp.branch = "remove" /\ env.cart.kind = "dict"

\* C28: within one remove request the quantity of an item sent in remove calls does not
\* exceed the quantity the item had in the cart fetched at the start of the request.
C28_RemovedWithinFetched ==
  RemoveServed
    => \A i \in 1..Len(env.action.items) :
         SentFor(netCalls, Len(netCalls), env.action.items[i].item_id)
           <= FetchedQty(env.cart, env.action.items[i].item_id)

(***************************************************************************)
(* What the remove reply reports as too many                               *)
(***************************************************************************)
\* the reply lists the item named disp, asked for want times, under "Too many to remove"
ListedTooMany(text, disp, want) ==
  /\ Contains(text, "Too many to remove: ")
  /\ Contains(text, Strip(disp) \o " (you asked " \o IntToStr(want) \o ", only ")

\* C29: the remove reply lists an item under "Too many to remove" only if its requested
\* quantity exceeded its quantity in the fetched cart; a removal that was valid and whose
\* remote call failed is not listed there.
C29_TooManyOnlyWhenExceeded ==
  RemoveServed
    => \A i \in 1..Len(env.action.items) :
         ListedTooMany(resp.reply, env.action.items[i].display,
                       QtyOrOne(env.action.items[i].qty))
           => QtyOrOne(env.action.items[i].qty)
                > FetchedQty(env.cart, env.action.items[i].item_id)

(***************************************************************************)
(* Replies about orders and the orders of other users                      *)
(***************************************************************************)
\* the reply the handler gives user_id for message m over the orders collection coll
OrdersReplyOn(m, coll, user_id, dbUp) ==
  IF m \in PaymentStatusQueries THEN PaymentBranch(coll, user_id, dbUp).reply
  ELSE PreviousOrdersBranch(coll, user_id, dbUp).reply

\* two collections that differ only in orders whose owner is not user_id
SameOwnOrders(a, b, user_id) ==
  {o \in a : o.userId = user_id} = {o \in b : o.userId = user_id}

AnsweredFromOrders ==
  ServedByMain /\ resp.branch \in {"payment_status", "previous_orders"}

\* C30: the order-history and last-payment replies are the same over any two stores that
\* differ only in orders owned by other users.
C30_RepliesIgnoreForeignOrders ==
  AnsweredFromOrders
    => \A other \in SUBSET (OrderDocs \cup ForeignOrderDocs) :
         SameOwnOrders(other, orders, req.userId)
           => OrdersReplyOn(req.message, other, req.userId, cfg.db) = resp.reply

\* C30 witness: a signed-in user with orders was answered from a store that holds a newer
\* order of another user
C30_Witness ==
  /\ AnsweredFromOrders
  /\ cfg.db
  /\ req.userId = "u1"
  /\ \E mine \in orders : mine.userId = "u1"
  /\ \E o \in orders :
       o.userId = "u2" /\ \A mine \in orders : mine.userId = "u1" => NewerThan(o, mine)

====
